---- MODULE Spec2Model ----
(***************************************************************************)
(* Model of the MACO gateway (maco_gateway): NonceTracker, AsconTransport,  *)
(* KeyStore, ClientConnection and GatewayServer.                            *)
(*                                                                          *)
(* Byte strings are sequences of integers.  A value 0..255 is a plain byte; *)
(* a value >= OpaqueBase is one output byte of the ASCON AEAD (ciphertext   *)
(* or tag), which carries the (key, nonce, associated data, plaintext) it   *)
(* was sealed from.                                                         *)
(***************************************************************************)
EXTENDS Integers, Sequences, FiniteSets, TLC

(***************************************************************************)
(* Bounds of the exploration.                                               *)
(***************************************************************************)
MaxSmallNonce == 3
MaxSmallWindow == 2
MaxConns == 2
MaxFrames == 3
MaxConcFrames == 2
MaxATNonce == 2
MaxClearFrames == 2
MaxHexChars == 34
MaxBodyLen == 112
MaxErrorChars == 122
MaxPendingLogs == 3
MaxPktFrames == 2
MaxHandlers == 3
MaxSendResponses == 3
MaxAddrs == 2

(***************************************************************************)
(* Program constants.                                                       *)
(***************************************************************************)
DEFAULT_WINDOW_SIZE == 64
DEVICE_ID_SIZE == 8
NONCE_SIZE == 16
TAG_SIZE == 16
KEY_SIZE == 16
MIN_FRAME_SIZE == DEVICE_ID_SIZE + NONCE_SIZE + TAG_SIZE
HASH_SIZE == 32
READ_SIZE == 4096

(***************************************************************************)
(* Python values that are either None, an int or a bytes object.  An int    *)
(* read by struct.unpack(">Q") is kept as its 8 base-256 digits.            *)
(***************************************************************************)
PyNone == [ty |-> "none", v |-> <<>>]
PyInt(digits) == [ty |-> "int", v |-> digits]
PyBytes(b) == [ty |-> "bytes", v |-> b]

VARIABLES
  tracker,      \* a stand-alone NonceTracker: [window_size, highest_nonce, seen_nonces]
  t_accepts,    \* history: how often each nonce value was accepted since construction / reset()
  t_last,       \* history: the last call on the tracker, its argument, result and pre-state
  conns,        \* ClientConnection objects, by connection (peer address)
  connections,  \* GatewayServer._connections: the addresses registered
  key_cache,    \* KeyStore._key_cache
  wire,         \* per connection, the bytes the peer has written and the gateway has not read
  dev_next,     \* per device, the next unused value of its frame nonce counter
  frames_sent,  \* number of frames written by peers so far
  sent,         \* history: per connection, the frames its peer wrote, as [d, n, forged]
  reads,        \* history: per connection, the number of bytes each read() returned
  listening,    \* the server is in serve_forever(), accepting connections
  call,         \* the last call made on a library object alone: its arguments and its result
  proc,         \* the gateway process started from the command line: main()
  pending_logs, \* GatewayServiceImpl._pending_logs
  handlers      \* the _handle_connection coroutines of GatewayServer, by task

tvars == <<tracker, t_accepts, t_last>>
gvars == <<conns, connections, key_cache, wire, dev_next, frames_sent, sent, reads, listening>>
vars == <<tracker, t_accepts, t_last, conns, connections, key_cache, wire, dev_next, frames_sent,
          sent, reads, listening, call, proc, pending_logs, handlers>>

(***************************************************************************)
(* int.to_bytes(length, "big") and int.from_bytes(b, "big").                *)
(***************************************************************************)
RECURSIVE to_bytes(_, _)
to_bytes(v, length) ==
  IF length = 0 THEN <<>> ELSE Append(to_bytes(v \div 256, length - 1), v % 256)

RECURSIVE from_bytes(_)
from_bytes(b) ==
  IF Len(b) = 0 THEN 0
  ELSE from_bytes(SubSeq(b, 1, Len(b) - 1)) * 256 + b[Len(b)]

(***************************************************************************)
(* NonceTracker                                                             *)
(***************************************************************************)
NewNonceTracker(window_size) ==
  [window_size |-> window_size, highest_nonce |-> 0, seen_nonces |-> {}]

TooOld_Inclusive(t, nonce_value) == nonce_value <= t.highest_nonce - t.window_size
TooOld_Never(t, nonce_value) == FALSE
\* if nonce_value < self._highest_nonce - self._window_size
TooOld(t, nonce_value) == nonce_value < t.highest_nonce - t.window_size

\* if nonce_value in self._seen_nonces
AlreadySeen(t, nonce_value) == nonce_value \in t.seen_nonces

Accept_ForgetsNewHighest(t, nonce_value) ==
  IF nonce_value > t.highest_nonce
  THEN [t EXCEPT !.highest_nonce = nonce_value,
                 !.seen_nonces = {n \in t.seen_nonces : n >= nonce_value - t.window_size}]
  ELSE [t EXCEPT !.seen_nonces = t.seen_nonces \cup {nonce_value}]
Accept_NoPrune(t, nonce_value) ==
  LET added == t.seen_nonces \cup {nonce_value} IN
  IF nonce_value > t.highest_nonce
  THEN [t EXCEPT !.highest_nonce = nonce_value, !.seen_nonces = added]
  ELSE [t EXCEPT !.seen_nonces = added]
\* the accepting tail of check_and_update: add, raise highest, prune
Accept(t, nonce_value) ==
  LET added == t.seen_nonces \cup {nonce_value} IN
  IF nonce_value > t.highest_nonce
  THEN LET cutoff == nonce_value - t.window_size IN
       [t EXCEPT !.highest_nonce = nonce_value,
                 !.seen_nonces = {n \in added : n >= cutoff}]
  ELSE [t EXCEPT !.seen_nonces = added]

check_and_update_AddsBeforeChecks(t, nonce) ==
  LET nonce_value == from_bytes(nonce)
      t1 == [t EXCEPT !.seen_nonces = @ \cup {nonce_value}]
  IN
  IF TooOld(t, nonce_value) THEN [ok |-> FALSE, t |-> t1]
  ELSE IF AlreadySeen(t, nonce_value) THEN [ok |-> FALSE, t |-> t1]
  ELSE [ok |-> TRUE, t |-> Accept(t, nonce_value)]
\* NonceTracker.check_and_update(nonce): the result and the tracker afterwards
check_and_update(t, nonce) ==
  LET nonce_value == from_bytes(nonce) IN
  IF TooOld(t, nonce_value) THEN [ok |-> FALSE, t |-> t]
  ELSE IF AlreadySeen(t, nonce_value) THEN [ok |-> FALSE, t |-> t]
  ELSE [ok |-> TRUE, t |-> Accept(t, nonce_value)]

reset_KeepsHighest(t) == [t EXCEPT !.seen_nonces = {}]
\* NonceTracker.reset()
reset(t) == [t EXCEPT !.highest_nonce = 0, !.seen_nonces = {}]

(***************************************************************************)
(* Byte strings.                                                            *)
(***************************************************************************)
\* b[start:] of Python, start counted from 0
Drop(b, start) == SubSeq(b, start + 1, Len(b))
\* b[:stop] of Python
Take(b, stop) == SubSeq(b, 1, IF stop < Len(b) THEN stop ELSE Len(b))

FLAG == 126
HashBase == 256
OpaqueBase == 1024
Radix == 64

(***************************************************************************)
(* pw_rpc packets.  A packet is written as the bytes                        *)
(* <<type, channel_id, service_id, method_id>>, a response with one more    *)
(* byte, its status.  The payloads that travel in frames are HDLC frames    *)
(* (FLAG data FLAG) whose data is one packet.                               *)
(***************************************************************************)
PKT_REQUEST == 1
PKT_OTHER == 2
PKT_RESPONSE == 3
STATUS_OK == 0
STATUS_UNIMPLEMENTED == 12
GATEWAY_CHANNEL_ID == 1
DEVICE_CHANNEL_ID == 2
GATEWAY_SERVICE == 7
OTHER_SERVICE == 9
METHOD_FORWARD == 1
METHOD_PERSIST_LOG == 2
METHOD_PING == 3

\* packets.encode_request / packets.encode_response
encode_request(channel_id, service_id, method_id) ==
  <<PKT_REQUEST, channel_id, service_id, method_id>>
encode_response(channel_id, service_id, method_id, status) ==
  <<PKT_RESPONSE, channel_id, service_id, method_id, status>>

\* a request for a method no service registers, a Ping of the GatewayService,
\* a packet that is not a request, and bytes that are no packet
UnknownRequest == encode_request(DEVICE_CHANNEL_ID, OTHER_SERVICE, METHOD_PING)
PingRequest == encode_request(DEVICE_CHANNEL_ID, GATEWAY_SERVICE, METHOD_PING)
OtherPacket == <<PKT_OTHER, DEVICE_CHANNEL_ID, GATEWAY_SERVICE, METHOD_PING>>
NoPacket == <<PKT_REQUEST>>

Plaintexts ==
  << <<>>,
     <<FLAG>> \o UnknownRequest \o <<FLAG>>,
     <<FLAG>> \o PingRequest \o <<FLAG>>,
     <<FLAG>> \o OtherPacket \o <<FLAG>>,
     <<FLAG>> \o NoPacket \o <<FLAG>>,
     <<FLAG>> \o encode_response(DEVICE_CHANNEL_ID, OTHER_SERVICE, METHOD_PING, STATUS_UNIMPLEMENTED) \o <<FLAG>>,
     <<FLAG>> \o encode_response(DEVICE_CHANNEL_ID, GATEWAY_SERVICE, METHOD_PING, STATUS_UNIMPLEMENTED) \o <<FLAG>>,
     <<FLAG>> \o encode_response(DEVICE_CHANNEL_ID, GATEWAY_SERVICE, METHOD_PING, STATUS_OK) \o <<FLAG>>,
     <<FLAG>> \o encode_response(GATEWAY_CHANNEL_ID, OTHER_SERVICE, METHOD_PING, STATUS_UNIMPLEMENTED) \o <<FLAG>> >>

PtIndex(payload) == CHOOSE i \in 1 .. Len(Plaintexts) : Plaintexts[i] = payload

(***************************************************************************)
(* ascon.hash, ascon.encrypt, ascon.decrypt (the ascon package): an ideal   *)
(* hash and an ideal AEAD.  Output byte number pos of a seal is a value     *)
(* >= OpaqueBase that encodes (key, nonce, associated data, plaintext, pos);*)
(* decryption succeeds exactly on the complete output of an encryption with *)
(* the same key, nonce and associated data.                                 *)
(***************************************************************************)
Digest(input_data) ==
  LET rest == Drop(input_data, KEY_SIZE) IN
  from_bytes(rest) * 4 + ((Len(rest) \div 4) % 4)

ascon_hash(input_data) ==
  [i \in 1 .. HASH_SIZE |-> HashBase + Digest(input_data) * HASH_SIZE + (i - 1)]

KeyId(key) ==
  IF key[1] >= HashBase THEN (key[1] - HashBase) \div HASH_SIZE + 1 ELSE 0

SealCode(k, n, a, p, pos) == OpaqueBase + ((((k * Radix + n) * Radix + a) * Radix + p) * Radix + pos)

SealOf(code) ==
  LET x == code - OpaqueBase IN
  [k |-> x \div (Radix * Radix * Radix * Radix),
   n |-> (x \div (Radix * Radix * Radix)) % Radix,
   a |-> (x \div (Radix * Radix)) % Radix,
   p |-> (x \div Radix) % Radix,
   pos |-> x % Radix]

ascon_encrypt(key, nonce, associateddata, plaintext) ==
  [i \in 1 .. Len(plaintext) + TAG_SIZE |->
     SealCode(KeyId(key), from_bytes(nonce), from_bytes(associateddata),
              PtIndex(plaintext), i)]

ascon_decrypt_AnyKey(key, nonce, associateddata, ciphertext) ==
  IF Len(ciphertext) < TAG_SIZE \/ ciphertext[1] < OpaqueBase THEN PyNone
  ELSE
    LET s == SealOf(ciphertext[1]) IN
    IF /\ s.p \in 1 .. Len(Plaintexts)
       /\ Len(ciphertext) = Len(Plaintexts[s.p]) + TAG_SIZE
       /\ \A i \in 1 .. Len(ciphertext) : ciphertext[i] = SealCode(s.k, s.n, s.a, s.p, i)
       /\ nonce = to_bytes(s.n, NONCE_SIZE)
       /\ associateddata = to_bytes(s.a, DEVICE_ID_SIZE)
    THEN PyBytes(Plaintexts[s.p])
    ELSE PyNone

\* the plaintext, or PyNone when the tag does not verify
ascon_decrypt(key, nonce, associateddata, ciphertext) ==
  IF Len(ciphertext) < TAG_SIZE \/ ciphertext[1] < OpaqueBase THEN PyNone
  ELSE
    LET s == SealOf(ciphertext[1]) IN
    IF /\ s.p \in 1 .. Len(Plaintexts)
       /\ Len(ciphertext) = Len(Plaintexts[s.p]) + TAG_SIZE
       /\ \A i \in 1 .. Len(ciphertext) : ciphertext[i] = SealCode(s.k, s.n, s.a, s.p, i)
       /\ s.k = KeyId(key)
       /\ nonce = to_bytes(s.n, NONCE_SIZE)
       /\ associateddata = to_bytes(s.a, DEVICE_ID_SIZE)
    THEN PyBytes(Plaintexts[s.p])
    ELSE PyNone

(***************************************************************************)
(* AsconTransport                                                           *)
(***************************************************************************)
\* struct.unpack(">Q", b)[0] and struct.pack(">Q", v)
unpack_Q(b) == PyInt(b)
pack_Q(device_id) == device_id.v

decrypt_frame_EmptyIsFailure(frame_data, key) ==
  IF Len(frame_data) < MIN_FRAME_SIZE
  THEN [frame |-> PyNone, error |-> "Frame too short"]
  ELSE IF Len(key) # KEY_SIZE
  THEN [frame |-> PyNone, error |-> "Invalid key size"]
  ELSE
    LET device_id == unpack_Q(Take(frame_data, DEVICE_ID_SIZE))
        nonce == SubSeq(frame_data, DEVICE_ID_SIZE + 1, DEVICE_ID_SIZE + NONCE_SIZE)
        encrypted_payload ==
          SubSeq(frame_data, DEVICE_ID_SIZE + NONCE_SIZE + 1, Len(frame_data) - TAG_SIZE)
        tag == Drop(frame_data, Len(frame_data) - TAG_SIZE)
        ad == Take(frame_data, DEVICE_ID_SIZE)
        plaintext == ascon_decrypt(key, nonce, ad, encrypted_payload \o tag)
    IN IF plaintext = PyNone \/ plaintext.v = <<>>
       THEN [frame |-> PyNone, error |-> "ASCON decryption failed: authentication error"]
       ELSE [frame |-> [ty |-> "frame", device_id |-> device_id, nonce |-> nonce,
                        payload |-> plaintext.v],
             error |-> ""]

decrypt_frame_Unchecked(frame_data, key) ==
  IF Len(frame_data) < MIN_FRAME_SIZE
  THEN [frame |-> PyNone, error |-> "Frame too short"]
  ELSE IF Len(key) # KEY_SIZE
  THEN [frame |-> PyNone, error |-> "Invalid key size"]
  ELSE
    LET device_id == unpack_Q(Take(frame_data, DEVICE_ID_SIZE))
        nonce == SubSeq(frame_data, DEVICE_ID_SIZE + 1, DEVICE_ID_SIZE + NONCE_SIZE)
        encrypted_payload ==
          SubSeq(frame_data, DEVICE_ID_SIZE + NONCE_SIZE + 1, Len(frame_data) - TAG_SIZE)
        tag == Drop(frame_data, Len(frame_data) - TAG_SIZE)
        ad == Take(frame_data, DEVICE_ID_SIZE)
        plaintext == ascon_decrypt(key, nonce, ad, encrypted_payload \o tag)
    IN IF plaintext = PyNone
       THEN [frame |-> [ty |-> "frame", device_id |-> device_id, nonce |-> nonce,
                        payload |-> encrypted_payload],
             error |-> ""]
       ELSE [frame |-> [ty |-> "frame", device_id |-> device_id, nonce |-> nonce,
                        payload |-> plaintext.v],
             error |-> ""]

decrypt_frame_KeySizeFirst(frame_data, key) ==
  IF Len(key) # KEY_SIZE
  THEN [frame |-> PyNone, error |-> "Invalid key size"]
  ELSE IF Len(frame_data) < MIN_FRAME_SIZE
  THEN [frame |-> PyNone, error |-> "Frame too short"]
  ELSE
    LET device_id == unpack_Q(Take(frame_data, DEVICE_ID_SIZE))
        nonce == SubSeq(frame_data, DEVICE_ID_SIZE + 1, DEVICE_ID_SIZE + NONCE_SIZE)
        encrypted_payload ==
          SubSeq(frame_data, DEVICE_ID_SIZE + NONCE_SIZE + 1, Len(frame_data) - TAG_SIZE)
        tag == Drop(frame_data, Len(frame_data) - TAG_SIZE)
        ad == Take(frame_data, DEVICE_ID_SIZE)
        plaintext == ascon_decrypt(key, nonce, ad, encrypted_payload \o tag)
    IN IF plaintext = PyNone
       THEN [frame |-> PyNone, error |-> "ASCON decryption failed: authentication error"]
       ELSE [frame |-> [ty |-> "frame", device_id |-> device_id, nonce |-> nonce,
                        payload |-> plaintext.v],
             error |-> ""]

\* AsconTransport.decrypt_frame: [frame, error]; frame is PyNone or
\* [ty |-> "frame", device_id, nonce, payload]
decrypt_frame(frame_data, key) ==
  IF Len(frame_data) < MIN_FRAME_SIZE
  THEN [frame |-> PyNone, error |-> "Frame too short"]
  ELSE IF Len(key) # KEY_SIZE
  THEN [frame |-> PyNone, error |-> "Invalid key size"]
  ELSE
    LET device_id == unpack_Q(Take(frame_data, DEVICE_ID_SIZE))
        nonce == SubSeq(frame_data, DEVICE_ID_SIZE + 1, DEVICE_ID_SIZE + NONCE_SIZE)
        encrypted_payload ==
          SubSeq(frame_data, DEVICE_ID_SIZE + NONCE_SIZE + 1, Len(frame_data) - TAG_SIZE)
        tag == Drop(frame_data, Len(frame_data) - TAG_SIZE)
        ad == Take(frame_data, DEVICE_ID_SIZE)
        plaintext == ascon_decrypt(key, nonce, ad, encrypted_payload \o tag)
    IN IF plaintext = PyNone
       THEN [frame |-> PyNone, error |-> "ASCON decryption failed: authentication error"]
       ELSE [frame |-> [ty |-> "frame", device_id |-> device_id, nonce |-> nonce,
                        payload |-> plaintext.v],
             error |-> ""]

\* AsconTransport.encrypt_frame: [frame, error]
encrypt_frame(device_id, nonce, payload, key) ==
  IF Len(nonce) # NONCE_SIZE
  THEN [frame |-> PyNone, error |-> "Invalid nonce size"]
  ELSE IF Len(key) # KEY_SIZE
  THEN [frame |-> PyNone, error |-> "Invalid key size"]
  ELSE
    LET device_id_bytes == pack_Q(device_id)
        ciphertext_with_tag == ascon_encrypt(key, nonce, device_id_bytes, payload)
    IN [frame |-> PyBytes(device_id_bytes \o nonce \o ciphertext_with_tag), error |-> ""]

\* AsconTransport.parse_device_id
parse_device_id(frame_data) ==
  IF Len(frame_data) < DEVICE_ID_SIZE THEN PyNone
  ELSE unpack_Q(Take(frame_data, DEVICE_ID_SIZE))

(***************************************************************************)
(* KeyStore                                                                 *)
(***************************************************************************)
EmptyCache == [x \in {} |-> <<>>]

\* KeyStore.get_device_key: [raised, key, cache].  bytes + int raises
\* TypeError, so an id that is not a bytes object and is not cached raises.
get_device_key(cache, master_key, device_id) ==
  IF device_id \in DOMAIN cache
  THEN [raised |-> FALSE, key |-> cache[device_id], cache |-> cache]
  ELSE IF device_id.ty # "bytes"
  THEN [raised |-> TRUE, key |-> <<>>, cache |-> cache]
  ELSE
    LET input_data == master_key \o device_id.v
        hash_output == ascon_hash(input_data)
        key == Take(hash_output, KEY_SIZE)
    IN [raised |-> FALSE, key |-> key, cache |-> (device_id :> key) @@ cache]

\* KeyStore.clear_cache
clear_cache(cache) == EmptyCache

(***************************************************************************)
(* pw_hdlc FrameDecoder / encode.frame and pw_rpc packets, as far as the    *)
(* connection uses them.                                                    *)
(***************************************************************************)
NewFrameDecoder == [in_frame |-> FALSE, data |-> <<>>]

\* FrameDecoder.process_byte: [dec, result]; result is PyNone or the data of a complete frame
process_byte(dec, byte) ==
  IF byte = FLAG
  THEN IF dec.in_frame /\ dec.data # <<>>
       THEN [dec |-> [in_frame |-> TRUE, data |-> <<>>], result |-> PyBytes(dec.data)]
       ELSE [dec |-> [in_frame |-> TRUE, data |-> <<>>], result |-> PyNone]
  ELSE IF dec.in_frame
       THEN [dec |-> [dec EXCEPT !.data = Append(@, byte)], result |-> PyNone]
       ELSE [dec |-> dec, result |-> PyNone]

\* hdlc_encode.frame(GATEWAY_CHANNEL_ID, response_data)
hdlc_encode_frame(response_data) == <<FLAG>> \o response_data \o <<FLAG>>

\* packets.decode: [ok, type, channel_id, service_id, method_id]; ~ok when decoding raises
packets_decode(packet_data) ==
  IF Len(packet_data) >= 4 /\ packet_data[1] \in {PKT_REQUEST, PKT_OTHER, PKT_RESPONSE}
  THEN [ok |-> TRUE, type |-> packet_data[1], channel_id |-> packet_data[2],
        service_id |-> packet_data[3], method_id |-> packet_data[4]]
  ELSE [ok |-> FALSE, type |-> 0, channel_id |-> 0, service_id |-> 0, method_id |-> 0]

(***************************************************************************)
(* ClientConnection                                                         *)
(***************************************************************************)
\* ClientConnection.__init__.  at is the await the coroutine is suspended at
\* ("read" or "drain").  History: accepted (nonce values the tracker accepted),
\* sealed (nonce values given to encrypt_frame), n_decrypt (decrypt_frame calls),
\* n_auth (of these, successful), n_check (check_and_update calls), exit,
\* log (the frames accepted, the requests decoded and the responses written, in
\* the order they happened), n_close (writer.close() calls), n_del (removals of
\* the registry entry)
NewClientConnection ==
  [st |-> "open",
   buffer |-> <<>>,
   nonce_tracker |-> NewNonceTracker(DEFAULT_WINDOW_SIZE),
   hdlc_decoder |-> NewFrameDecoder,
   device_id |-> PyNone,
   device_key |-> PyNone,
   response_nonce_counter |-> 0,
   written |-> <<>>,
   accepted |-> <<>>,
   sealed |-> <<>>,
   n_decrypt |-> 0,
   n_auth |-> 0,
   n_check |-> 0,
   exit |-> "",
   at |-> "read",
   log |-> <<>>,
   n_close |-> 0,
   n_del |-> 0]

NoConnection == [NewClientConnection EXCEPT !.st = "none"]

NextResponseNonce_Stuck(cn) == 1
\* self._response_nonce_counter += 1
NextResponseNonce(cn) == cn.response_nonce_counter + 1

send_response_NoWrite(cn, response_data) == cn
send_response_IgnoresEncryptError(cn, response_data) ==
  IF cn.device_key = PyNone \/ cn.device_id = PyNone THEN cn
  ELSE
    LET hdlc_data == hdlc_encode_frame(response_data)
        counter == NextResponseNonce(cn)
        nonce == to_bytes(counter, NONCE_SIZE)
        r == encrypt_frame(cn.device_id, nonce, hdlc_data, cn.device_key.v)
        cn1 == [cn EXCEPT !.response_nonce_counter = counter,
                          !.sealed = Append(@, counter)]
    IN [cn1 EXCEPT !.written = Append(@, r.frame.v),
                   !.log = Append(@, [ev |-> "write", n |-> counter])]
\* ClientConnection._send_response; the coroutine then awaits drain()
send_response(cn, response_data) ==
  IF cn.device_key = PyNone \/ cn.device_id = PyNone THEN cn
  ELSE
    LET hdlc_data == hdlc_encode_frame(response_data)
        counter == NextResponseNonce(cn)
        nonce == to_bytes(counter, NONCE_SIZE)
        r == encrypt_frame(cn.device_id, nonce, hdlc_data, cn.device_key.v)
        cn1 == [cn EXCEPT !.response_nonce_counter = counter,
                          !.sealed = Append(@, counter)]
    IN IF r.error # "" THEN cn1
       ELSE [cn1 EXCEPT !.written = Append(@, r.frame.v),
                        !.log = Append(@, [ev |-> "write", n |-> counter])]

handle_rpc_request_OwnChannel(packet) ==
  IF packet.type = PKT_REQUEST
  THEN PyBytes(encode_response(GATEWAY_CHANNEL_ID, packet.service_id, packet.method_id,
                               STATUS_UNIMPLEMENTED))
  ELSE PyNone
handle_rpc_request_AnswersAll(packet) ==
  PyBytes(encode_response(packet.channel_id, packet.service_id, packet.method_id,
                          STATUS_UNIMPLEMENTED))
\* ClientConnection._handle_rpc_request: the response packet, or PyNone
handle_rpc_request(packet) ==
  IF packet.type = PKT_REQUEST
  THEN PyBytes(encode_response(packet.channel_id, packet.service_id, packet.method_id,
                               STATUS_UNIMPLEMENTED))
  ELSE PyNone

process_rpc_packet_NoAwait(cn, packet_data) ==
  LET packet == packets_decode(packet_data) IN
  IF packet.ok /\ packet.type = PKT_REQUEST
  THEN [cn EXCEPT !.log = Append(@, [ev |-> "request", n |-> packet.method_id])]
  ELSE cn
process_rpc_packet_AnswersUndecodable(cn, packet_data) ==
  LET packet == packets_decode(packet_data) IN
  IF ~packet.ok
  THEN send_response(cn, encode_response(GATEWAY_CHANNEL_ID, OTHER_SERVICE, METHOD_PING,
                                         STATUS_UNIMPLEMENTED))
  ELSE LET response == handle_rpc_request(packet)
           cn1 == IF packet.type = PKT_REQUEST
                  THEN [cn EXCEPT !.log = Append(@, [ev |-> "request", n |-> packet.method_id])]
                  ELSE cn
       IN IF response = PyNone THEN cn1 ELSE send_response(cn1, response.v)
\* ClientConnection._process_rpc_packet
process_rpc_packet(cn, packet_data) ==
  LET packet == packets_decode(packet_data) IN
  IF ~packet.ok THEN cn
  ELSE LET response == handle_rpc_request(packet)
           cn1 == IF packet.type = PKT_REQUEST
                  THEN [cn EXCEPT !.log = Append(@, [ev |-> "request", n |-> packet.method_id])]
                  ELSE cn
       IN IF response = PyNone THEN cn1 ELSE send_response(cn1, response.v)

\* ClientConnection._process_hdlc_payload
RECURSIVE process_hdlc_payload(_, _)
process_hdlc_payload(cn, payload) ==
  IF payload = <<>> THEN cn
  ELSE
    LET r == process_byte(cn.hdlc_decoder, payload[1])
        cn1 == [cn EXCEPT !.hdlc_decoder = r.dec]
        cn2 == IF r.result = PyNone THEN cn1 ELSE process_rpc_packet(cn1, r.result.v)
    IN process_hdlc_payload(cn2, Drop(payload, 1))

\* buffer = buffer[1:]
DropAfterDecryptError(buffer) == Drop(buffer, 1)

\* buffer = buffer[AsconTransport.MIN_FRAME_SIZE:]
DropAfterReplay(buffer) == Drop(buffer, MIN_FRAME_SIZE)

Unbound_Always(cn) == TRUE
\* if self._device_id is None
Unbound(cn) == cn.device_id = PyNone

\* elif self._device_id != device_id
DeviceIdMismatch(cn, device_id) == cn.device_id # device_id

OnDeviceIdMismatch_Break(cn, cache) == [cn |-> cn, cache |-> cache, exit |-> "read"]
\* the mismatch branch: log a warning and return from _process_messages
OnDeviceIdMismatch(cn, cache) == [cn |-> cn, cache |-> cache, exit |-> "return"]

\* The inner loop of ClientConnection._process_messages, run until it leaves
\* for the next read ("read"), awaits drain() after writing a response
\* ("drain"), returns ("return") or raises ("raise"): [cn, cache, exit].
RECURSIVE ProcessFrames(_, _, _)
RECURSIVE DecryptAndDispatch(_, _, _)
ProcessFrames(cn, cache, master_key) ==
  IF Len(cn.buffer) < MIN_FRAME_SIZE
  THEN [cn |-> cn, cache |-> cache, exit |-> "read"]
  ELSE
    LET device_id == parse_device_id(cn.buffer) IN
    IF device_id = PyNone
    THEN [cn |-> cn, cache |-> cache, exit |-> "read"]
    ELSE IF Unbound(cn)
    THEN LET g == get_device_key(cache, master_key, device_id)
             cn1 == [cn EXCEPT !.device_id = device_id]
         IN IF g.raised
            THEN [cn |-> cn1, cache |-> g.cache, exit |-> "raise"]
            ELSE DecryptAndDispatch([cn1 EXCEPT !.device_key = PyBytes(g.key)],
                                    g.cache, master_key)
    ELSE IF DeviceIdMismatch(cn, device_id)
    THEN OnDeviceIdMismatch(cn, cache)
    ELSE DecryptAndDispatch(cn, cache, master_key)

DecryptAndDispatch(cn, cache, master_key) ==
  LET r == decrypt_frame(cn.buffer, cn.device_key.v)
      cnd == [cn EXCEPT !.n_decrypt = @ + 1]
  IN
  IF r.error # ""
  THEN ProcessFrames([cnd EXCEPT !.buffer = DropAfterDecryptError(@)], cache, master_key)
  ELSE
    LET chk == check_and_update(cnd.nonce_tracker, r.frame.nonce) IN
    IF ~chk.ok
    THEN ProcessFrames([cnd EXCEPT !.n_auth = @ + 1, !.n_check = @ + 1,
                                   !.buffer = DropAfterReplay(@)], cache, master_key)
    ELSE
      LET frame_size == DEVICE_ID_SIZE + NONCE_SIZE + Len(r.frame.payload) + TAG_SIZE
          cn2 == [cnd EXCEPT !.n_auth = @ + 1, !.n_check = @ + 1,
                             !.nonce_tracker = chk.t,
                             !.accepted = Append(@, from_bytes(r.frame.nonce)),
                             !.log = Append(@, [ev |-> "accept", n |-> from_bytes(r.frame.nonce)]),
                             !.buffer = Drop(@, frame_size)]
          cn3 == process_hdlc_payload(cn2, r.frame.payload)
      IN IF Len(cn3.written) > Len(cn2.written)
         THEN [cn |-> [cn3 EXCEPT !.at = "drain"], cache |-> cache, exit |-> "drain"]
         ELSE ProcessFrames(cn3, cache, master_key)

\* drain() returns and the loop goes on
AfterDrain(cn, cache, master_key) == ProcessFrames([cn EXCEPT !.at = "read"], cache, master_key)

\* the loop when no drain() suspends: run until the next read, return or raise
RECURSIVE RunToRead(_, _)
RunToRead(r, master_key) ==
  IF r.exit = "drain" THEN RunToRead(AfterDrain(r.cn, r.cache, master_key), master_key) ELSE r

Closed_StaysOpen(cn, exit) ==
  [cn EXCEPT !.exit = exit, !.n_close = @ + 1, !.n_del = @ + 1]
\* ClientConnection.handle leaving _process_messages: except / finally, then
\* GatewayServer._handle_connection's finally
\* (the buffer, the tracker and the decoder die with the coroutine)
Closed(cn, exit) ==
  [cn EXCEPT !.st = "closed", !.exit = exit, !.buffer = <<>>, !.at = "read",
             !.n_close = @ + 1, !.n_del = @ + 1,
             !.nonce_tracker = NewNonceTracker(DEFAULT_WINDOW_SIZE),
             !.hdlc_decoder = NewFrameDecoder]

(***************************************************************************)
(* The stand-alone tracker: any window size of WindowSizes, any sequence of *)
(* check_and_update and reset calls with nonces of NonceValues.             *)
(***************************************************************************)
NonceValues == (0 .. MaxSmallNonce) \cup {35, 36, 100, 150}
WindowSizes == (0 .. MaxSmallWindow) \cup {DEFAULT_WINDOW_SIZE}

ConnIds == 1 .. MaxConns
DeviceIds == {1, 2}
MASTER_KEY == [i \in 1 .. KEY_SIZE |-> i - 1]
ATTACKER_KEY == [i \in 1 .. KEY_SIZE |-> 0]

\* no connection handler started yet
NoHandler == [st |-> "none"]
NoHandlers == [h \in 1 .. MaxHandlers |-> NoHandler]

\* no library call made, no process started
NoCall == [op |-> "none"]
NoProcess == [pc |-> "none"]

TrackerIdle ==
  /\ call = NoCall
  /\ proc = NoProcess /\ pending_logs = <<>> /\ handlers = NoHandlers
  /\ tracker = NewNonceTracker(DEFAULT_WINDOW_SIZE)
  /\ t_accepts = [n \in NonceValues |-> 0]
  /\ t_last = [op |-> "new", n |-> 0, ok |-> FALSE, pre |-> NewNonceTracker(0), fresh |-> TRUE]

GatewayIdle ==
  /\ conns = [c \in ConnIds |-> NoConnection]
  /\ connections = {}
  /\ key_cache = EmptyCache
  /\ wire = [c \in ConnIds |-> <<>>]
  /\ dev_next = [d \in DeviceIds |-> 1]
  /\ frames_sent = 0
  /\ sent = [c \in ConnIds |-> <<>>]
  /\ reads = [c \in ConnIds |-> <<>>]
  /\ listening = TRUE

InitNT ==
  /\ \E w \in WindowSizes : tracker = NewNonceTracker(w)
  /\ call = NoCall
  /\ proc = NoProcess /\ pending_logs = <<>> /\ handlers = NoHandlers
  /\ t_accepts = [n \in NonceValues |-> 0]
  /\ t_last = [op |-> "new", n |-> 0, ok |-> FALSE, pre |-> NewNonceTracker(0), fresh |-> TRUE]
  /\ GatewayIdle

TrackerCheck(n) ==
  LET r == check_and_update(tracker, to_bytes(n, NONCE_SIZE)) IN
  /\ tracker' = r.t
  /\ t_accepts' = IF r.ok THEN [t_accepts EXCEPT ![n] = @ + 1] ELSE t_accepts
  /\ t_last' = [op |-> "check", n |-> n, ok |-> r.ok, pre |-> tracker,
                fresh |-> \A m \in NonceValues : t_accepts[m] = 0]
  /\ UNCHANGED <<gvars, call, proc, pending_logs, handlers>>

TrackerReset ==
  /\ tracker' = reset(tracker)
  /\ t_accepts' = [n \in NonceValues |-> 0]
  /\ t_last' = [op |-> "reset", n |-> 0, ok |-> FALSE, pre |-> tracker,
                fresh |-> \A m \in NonceValues : t_accepts[m] = 0]
  /\ UNCHANGED <<gvars, call, proc, pending_logs, handlers>>

NextNT ==
  \/ \E n \in NonceValues : TrackerCheck(n)
  \/ TrackerReset

SpecNT == InitNT /\ [][NextNT]_vars

(***************************************************************************)
(* The gateway: GatewayServer accepting connections, peers writing frames,  *)
(* each ClientConnection reading and processing them.                       *)
(***************************************************************************)
\* the key a device holds: what KeyStore derives from the bytes of its id
DeviceKeyOf(d) == Take(ascon_hash(MASTER_KEY \o to_bytes(d, DEVICE_ID_SIZE)), KEY_SIZE)

\* the frame device d builds for nonce n and payload p
DeviceFrame(d, n, p) ==
  encrypt_frame(PyInt(to_bytes(d, DEVICE_ID_SIZE)), to_bytes(n, NONCE_SIZE), p, DeviceKeyOf(d)).frame.v

\* a frame that names device d but is sealed under a key that is not d's
ForgedFrame(d, n, p) ==
  encrypt_frame(PyInt(to_bytes(d, DEVICE_ID_SIZE)), to_bytes(n, NONCE_SIZE), p, ATTACKER_KEY).frame.v

RequestPayload == <<FLAG>> \o UnknownRequest \o <<FLAG>>
SendPayloads == {RequestPayload}
CutSizes == {MIN_FRAME_SIZE + 1}

Init == TrackerIdle /\ GatewayIdle

\* the key store already holds, under the integer ids, the keys of the devices
InitKeyed ==
  /\ TrackerIdle
  /\ conns = [c \in ConnIds |-> NoConnection]
  /\ connections = {}
  /\ key_cache = [id \in {PyInt(to_bytes(d, DEVICE_ID_SIZE)) : d \in DeviceIds} |->
                    DeviceKeyOf(from_bytes(id.v))]
  /\ wire = [c \in ConnIds |-> <<>>]
  /\ dev_next = [d \in DeviceIds |-> 1]
  /\ frames_sent = 0
  /\ sent = [c \in ConnIds |-> <<>>]
  /\ reads = [c \in ConnIds |-> <<>>]
  /\ listening = TRUE

\* GatewayServer._handle_connection up to conn.handle() awaiting its first read
Connect(c) ==
  /\ listening
  /\ conns[c].st = "none"
  /\ \A b \in ConnIds : b < c => conns[b].st = "closed"
  /\ conns' = [conns EXCEPT ![c] = NewClientConnection]
  /\ connections' = connections \cup {c}
  /\ UNCHANGED <<key_cache, wire, dev_next, frames_sent, sent, reads, listening, tracker, t_accepts, t_last, call, proc, pending_logs, handlers>>

\* the peer of connection c writes the frame of device d with nonce n: a new
\* nonce or one the device has used before
DeviceSend(c, d, n, p) ==
  /\ conns[c].st = "open"
  /\ frames_sent < MaxFrames
  /\ n <= dev_next[d]
  /\ wire' = [wire EXCEPT ![c] = @ \o DeviceFrame(d, n, p)]
  /\ dev_next' = [dev_next EXCEPT ![d] = IF n = @ THEN @ + 1 ELSE @]
  /\ frames_sent' = frames_sent + 1
  /\ sent' = [sent EXCEPT ![c] = Append(@, [d |-> d, n |-> n, forged |-> FALSE])]
  /\ UNCHANGED <<conns, connections, key_cache, reads, listening, tracker, t_accepts, t_last, call, proc, pending_logs, handlers>>

\* the peer of connection c writes a frame that does not authenticate
ForgedSend(c, d, n) ==
  /\ conns[c].st = "open"
  /\ frames_sent < MaxFrames
  /\ wire' = [wire EXCEPT ![c] = @ \o ForgedFrame(d, n, RequestPayload)]
  /\ frames_sent' = frames_sent + 1
  /\ sent' = [sent EXCEPT ![c] = Append(@, [d |-> d, n |-> n, forged |-> TRUE])]
  /\ UNCHANGED <<conns, connections, key_cache, dev_next, reads, listening, tracker, t_accepts, t_last, call, proc, pending_logs, handlers>>

\* what read(READ_SIZE) may return: all that is waiting, or only its first k bytes
ReadChoices == CutSizes \cup {READ_SIZE}

\* one pass of the outer loop of _process_messages: read() returns k bytes,
\* the frames in the buffer are processed; on return or raise handle() closes
\* the writer and _handle_connection removes the registry entry
Read(c, k) ==
  /\ conns[c].st = "open"
  /\ conns[c].at = "read"
  /\ wire[c] # <<>>
  /\ k = READ_SIZE \/ k < Len(wire[c])
  /\ \E r \in {RunToRead(ProcessFrames([conns[c] EXCEPT !.buffer = @ \o Take(wire[c], k)],
                                        key_cache, MASTER_KEY), MASTER_KEY)} :
        /\ conns' = [conns EXCEPT ![c] = IF r.exit = "read" THEN r.cn ELSE Closed(r.cn, r.exit)]
        /\ connections' = IF r.exit = "read" THEN connections ELSE connections \ {c}
        /\ key_cache' = r.cache
        /\ wire' = [wire EXCEPT ![c] = IF r.exit = "read" THEN Drop(@, k) ELSE <<>>]
  /\ reads' = [reads EXCEPT ![c] = Append(@, IF k < Len(wire[c]) THEN k ELSE Len(wire[c]))]
  /\ UNCHANGED <<dev_next, frames_sent, sent, listening, tracker, t_accepts, t_last, call, proc, pending_logs, handlers>>

\* the peer closes; read() returns b"" once everything written was read
PeerClose(c) ==
  /\ conns[c].st = "open"
  /\ conns[c].at = "read"
  /\ wire[c] = <<>>
  /\ conns' = [conns EXCEPT ![c] = Closed(@, "eof")]
  /\ connections' = connections \ {c}
  /\ UNCHANGED <<key_cache, wire, dev_next, frames_sent, sent, reads, listening, tracker, t_accepts, t_last, call, proc, pending_logs, handlers>>

Next ==
  \/ \E c \in ConnIds : Connect(c)
  \/ \E c \in ConnIds, d \in DeviceIds, n \in 1 .. MaxFrames, p \in SendPayloads : DeviceSend(c, d, n, p)
  \/ \E c \in ConnIds, d \in DeviceIds : ForgedSend(c, d, 1)
  \/ \E c \in ConnIds, k \in ReadChoices : Read(c, k)
  \/ \E c \in ConnIds : PeerClose(c)

Spec == Init /\ [][Next]_vars
SpecKeyed == InitKeyed /\ [][Next]_vars

(***************************************************************************)
(* The gateway of SpecKeyed with peers that send every kind of packet: a    *)
(* request, a packet of another type, a response packet, and bytes that     *)
(* packets.decode rejects.  Each frame carries the device's next nonce, and  *)
(* a read() returns all the bytes that have arrived.                        *)
(***************************************************************************)
OtherPayload == <<FLAG>> \o OtherPacket \o <<FLAG>>
ResponsePayload ==
  <<FLAG>> \o encode_response(DEVICE_CHANNEL_ID, GATEWAY_SERVICE, METHOD_PING, STATUS_OK) \o <<FLAG>>
NoPacketPayload == <<FLAG>> \o NoPacket \o <<FLAG>>
PacketPayloads == {RequestPayload, OtherPayload, ResponsePayload, NoPacketPayload}

\* the peer of connection c, a device d that stays the same for the
\* connection, writes its next frame with payload p; the history keeps the
\* payload
DeviceSendPacket(c, d, p) ==
  /\ conns[c].st = "open"
  /\ frames_sent < MaxPktFrames
  /\ sent[c] # <<>> => d = sent[c][1].d
  /\ wire' = [wire EXCEPT ![c] = @ \o DeviceFrame(d, dev_next[d], p)]
  /\ dev_next' = [dev_next EXCEPT ![d] = @ + 1]
  /\ frames_sent' = frames_sent + 1
  /\ sent' = [sent EXCEPT ![c] = Append(@, [d |-> d, n |-> dev_next[d], forged |-> FALSE, p |-> p])]
  /\ UNCHANGED <<conns, connections, key_cache, reads, listening, tracker, t_accepts, t_last, call, proc, pending_logs, handlers>>

NextPkt ==
  \/ \E c \in ConnIds : Connect(c)
  \/ \E c \in ConnIds, d \in DeviceIds, p \in PacketPayloads : DeviceSendPacket(c, d, p)
  \/ \E c \in ConnIds, k \in {READ_SIZE} : Read(c, k)
  \/ \E c \in ConnIds : PeerClose(c)

SpecPkt == InitKeyed /\ [][NextPkt]_vars

(***************************************************************************)
(* The gateway with its connections running concurrently, each coroutine    *)
(* followed from one await to the next, and with the server shutting down.  *)
(* The KeyStore is the one of Spec or the one of SpecKeyed.                 *)
(***************************************************************************)
PingPayload == <<FLAG>> \o PingRequest \o <<FLAG>>
ConcPayloads == {PingPayload}

\* the loop left the coroutine waiting at an await
Suspended(exit) == exit \in {"read", "drain"}

InitConc ==
  /\ TrackerIdle
  /\ conns = [c \in ConnIds |-> NoConnection]
  /\ connections = {}
  /\ \/ key_cache = EmptyCache
     \/ key_cache = [id \in {PyInt(to_bytes(d, DEVICE_ID_SIZE)) : d \in DeviceIds} |->
                       DeviceKeyOf(from_bytes(id.v))]
  /\ wire = [c \in ConnIds |-> <<>>]
  /\ dev_next = [d \in DeviceIds |-> 1]
  /\ frames_sent = 0
  /\ sent = [c \in ConnIds |-> <<>>]
  /\ reads = [c \in ConnIds |-> <<>>]
  /\ listening = TRUE

\* GatewayServer._handle_connection, called by the listener for every new peer
\* whatever the other connections are doing
ConnectConcurrent(c) ==
  /\ listening
  /\ conns[c].st = "none"
  /\ \A b \in ConnIds : b < c => conns[b].st # "none"
  /\ conns' = [conns EXCEPT ![c] = NewClientConnection]
  /\ connections' = connections \cup {c}
  /\ UNCHANGED <<key_cache, wire, dev_next, frames_sent, sent, reads, listening, tracker, t_accepts, t_last, call, proc, pending_logs, handlers>>

Resume_SharedTracker(c, r, k) ==
  /\ conns' = [b \in ConnIds |->
                 IF b = c THEN (IF Suspended(r.exit) THEN r.cn ELSE Closed(r.cn, r.exit))
                 ELSE IF conns[b].st = "open"
                      THEN [conns[b] EXCEPT !.nonce_tracker = r.cn.nonce_tracker]
                      ELSE conns[b]]
  /\ connections' = IF Suspended(r.exit) THEN connections ELSE connections \ {c}
  /\ key_cache' = r.cache
  /\ wire' = [wire EXCEPT ![c] = IF Suspended(r.exit) THEN Drop(@, k) ELSE <<>>]
\* the coroutine of c goes on with the result r of its loop, k bytes read
Resume(c, r, k) ==
  /\ conns' = [conns EXCEPT ![c] = IF Suspended(r.exit) THEN r.cn ELSE Closed(r.cn, r.exit)]
  /\ connections' = IF Suspended(r.exit) THEN connections ELSE connections \ {c}
  /\ key_cache' = r.cache
  /\ wire' = [wire EXCEPT ![c] = IF Suspended(r.exit) THEN Drop(@, k) ELSE <<>>]

ReadReady_UnlessSiblingDrains(c) ==
  /\ conns[c].st = "open" /\ conns[c].at = "read" /\ wire[c] # <<>>
  /\ \A b \in ConnIds \ {c} : ~(conns[b].st = "open" /\ conns[b].at = "drain")
\* the coroutine of c waits in read() and bytes are there: the event loop can
\* resume it, whatever the other coroutines wait for
ReadReady(c) == conns[c].st = "open" /\ conns[c].at = "read" /\ wire[c] # <<>>

\* read() returns k bytes; the loop runs until its next await
ReadStep(c, k) ==
  /\ ReadReady(c)
  /\ k = READ_SIZE \/ k < Len(wire[c])
  /\ \E r \in {ProcessFrames([conns[c] EXCEPT !.buffer = @ \o Take(wire[c], k)],
                              key_cache, MASTER_KEY)} : Resume(c, r, k)
  /\ reads' = [reads EXCEPT ![c] = Append(@, IF k < Len(wire[c]) THEN k ELSE Len(wire[c]))]
  /\ UNCHANGED <<dev_next, frames_sent, sent, listening, tracker, t_accepts, t_last, call, proc, pending_logs, handlers>>

\* drain() returns; the loop runs until its next await
Drained(c) ==
  /\ conns[c].st = "open"
  /\ conns[c].at = "drain"
  /\ \E r \in {AfterDrain(conns[c], key_cache, MASTER_KEY)} : Resume(c, r, 0)
  /\ UNCHANGED <<dev_next, frames_sent, sent, reads, listening, tracker, t_accepts, t_last, call, proc, pending_logs, handlers>>

DrainFails_Propagates(c) ==
  /\ conns[c].st = "open"
  /\ conns[c].at = "drain"
  /\ conns' = [b \in ConnIds |-> IF conns[b].st = "open" THEN Closed(conns[b], "raise")
                                  ELSE conns[b]]
  /\ connections' = {}
  /\ wire' = [b \in ConnIds |-> <<>>]
  /\ listening' = FALSE
  /\ UNCHANGED <<key_cache, dev_next, frames_sent, sent, reads, tracker, t_accepts, t_last, call, proc, pending_logs, handlers>>
\* drain() raises (the peer reset the connection): handle() logs and closes
DrainFails(c) ==
  /\ conns[c].st = "open"
  /\ conns[c].at = "drain"
  /\ conns' = [conns EXCEPT ![c] = Closed(@, "raise")]
  /\ connections' = connections \ {c}
  /\ wire' = [wire EXCEPT ![c] = <<>>]
  /\ UNCHANGED <<key_cache, dev_next, frames_sent, sent, reads, listening, tracker, t_accepts, t_last, call, proc, pending_logs, handlers>>

\* serve_forever() is cancelled: the server stops listening
Shutdown ==
  /\ listening
  /\ listening' = FALSE
  /\ UNCHANGED <<conns, connections, key_cache, wire, dev_next, frames_sent, sent, reads,
                 tracker, t_accepts, t_last, call, proc, pending_logs, handlers>>

\* asyncio.run cancels the task of c at its await: handle() catches CancelledError
Cancel(c) ==
  /\ ~listening
  /\ conns[c].st = "open"
  /\ conns' = [conns EXCEPT ![c] = Closed(@, "cancel")]
  /\ connections' = connections \ {c}
  /\ wire' = [wire EXCEPT ![c] = <<>>]
  /\ UNCHANGED <<key_cache, dev_next, frames_sent, sent, reads, listening, tracker, t_accepts, t_last, call, proc, pending_logs, handlers>>

NextConc ==
  \/ \E c \in ConnIds : ConnectConcurrent(c)
  \/ \E c \in ConnIds, d \in DeviceIds, p \in ConcPayloads :
        frames_sent < MaxConcFrames /\ DeviceSend(c, d, dev_next[d], p)
  \/ \E c \in ConnIds, k \in ReadChoices : ReadStep(c, k)
  \/ \E c \in ConnIds : Drained(c)
  \/ \E c \in ConnIds : DrainFails(c)
  \/ \E c \in ConnIds : PeerClose(c)
  \/ Shutdown
  \/ \E c \in ConnIds : Cancel(c)

SpecConc == InitConc /\ [][NextConc]_vars

\* a ReadStep of c happens (no other step of NextConc extends reads[c])
ReadHappens(c) == Len(reads'[c]) > Len(reads[c])

\* the event loop resumes a coroutine whose read() has bytes to return or
\* whose drain() can complete: weak fairness of the read steps of c, written
\* out with ReadReady(c) for ENABLED, and WF of Drained(c)
FairConc ==
  \A c \in ConnIds :
    /\ []<>(~ReadReady(c)) \/ []<><<ReadHappens(c)>>_vars
    /\ WF_vars(Drained(c))

SpecConcFair == InitConc /\ [][NextConc]_vars /\ FairConc

\* connection 1 may stay suspended at any await for ever (a peer that stops
\* reading, a call that hangs); the event loop is fair to the others
FairOthers ==
  \A c \in ConnIds \ {1} :
    /\ []<>(~ReadReady(c)) \/ []<><<ReadHappens(c)>>_vars
    /\ WF_vars(Drained(c))

SpecConcHung == InitConc /\ [][NextConc]_vars /\ FairOthers

(***************************************************************************)
(* AsconTransport used alone: encrypt_frame on chosen arguments, the frame  *)
(* it returned altered in one place or left alone, and decrypt_frame on the *)
(* outcome or on a byte string too short to be a frame.                     *)
(***************************************************************************)
ATDeviceIds == {PyInt(to_bytes(d, DEVICE_ID_SIZE)) : d \in DeviceIds}
ATNonces ==
  {to_bytes(n, len) : n \in 0 .. MaxATNonce, len \in {NONCE_SIZE - 1, NONCE_SIZE, NONCE_SIZE + 1}}
ATPayloads == {<<>>, RequestPayload, PingPayload}
ATKeys ==
  {DeviceKeyOf(1), DeviceKeyOf(2), ATTACKER_KEY,
   Take(DeviceKeyOf(1), KEY_SIZE - 1), DeviceKeyOf(1) \o <<0>>, <<>>}
ShortLens == {0, DEVICE_ID_SIZE, MIN_FRAME_SIZE - 1}
FrameParts == {"device_id", "nonce", "ciphertext", "tag", "spliced", "shorter", "longer"}

\* frame_data with one of its parts changed: the id into the other device's,
\* one byte of the nonce, of the ciphertext or of the tag, the sealed part
\* taken from the frame of the next nonce, the last byte cut, a byte appended
Altered(frame_data, part, sealed) ==
  CASE part = "device_id" ->
         [frame_data EXCEPT ![DEVICE_ID_SIZE] = IF @ = 1 THEN 2 ELSE 1]
    [] part = "nonce" ->
         [frame_data EXCEPT ![DEVICE_ID_SIZE + NONCE_SIZE] = @ + 1]
    [] part = "ciphertext" ->
         [frame_data EXCEPT ![DEVICE_ID_SIZE + NONCE_SIZE + 1] = @ + 1]
    [] part = "tag" ->
         [frame_data EXCEPT ![Len(frame_data)] = @ + 1]
    [] part = "spliced" ->
         Take(frame_data, DEVICE_ID_SIZE + NONCE_SIZE)
           \o ascon_encrypt(sealed.key, to_bytes(from_bytes(sealed.nonce) + 1, NONCE_SIZE),
                            pack_Q(sealed.device_id), sealed.payload)
    [] part = "shorter" -> Take(frame_data, Len(frame_data) - 1)
    [] part = "longer" -> Append(frame_data, 0)

NoSeal == [device_id |-> PyNone, nonce |-> <<>>, payload |-> <<>>, key |-> <<>>]

EncryptFrame(device_id, nonce, payload, key) ==
  /\ call.op = "none"
  /\ call' = LET r == encrypt_frame(device_id, nonce, payload, key) IN
              [op |-> "encrypt_frame",
               sealed |-> [device_id |-> device_id, nonce |-> nonce, payload |-> payload,
                           key |-> key],
               altered |-> "no",
               frame_data |-> IF r.frame = PyNone THEN <<>> ELSE r.frame.v,
               key |-> key,
               result |-> r]
  /\ UNCHANGED <<gvars, tvars, proc, pending_logs, handlers>>

\* the frame is changed on its way
AlterFrame(part) ==
  /\ call.op = "encrypt_frame"
  /\ call.result.error = ""
  /\ call.altered = "no"
  /\ call' = [call EXCEPT !.frame_data = Altered(@, part, call.sealed), !.altered = part]
  /\ UNCHANGED <<gvars, tvars, proc, pending_logs, handlers>>

\* decrypt_frame on the frame as it arrived
DecryptFrame(key) ==
  /\ call.op = "encrypt_frame"
  /\ call.result.error = ""
  /\ call' = [call EXCEPT !.op = "decrypt_frame", !.key = key,
                          !.result = decrypt_frame(call.frame_data, key)]
  /\ UNCHANGED <<gvars, tvars, proc, pending_logs, handlers>>

\* decrypt_frame on the first n bytes of a frame, n < MIN_FRAME_SIZE
DecryptShort(n, key) ==
  /\ call.op = "none"
  /\ call' = LET frame_data == Take(DeviceFrame(1, 1, RequestPayload), n) IN
              [op |-> "decrypt_frame", sealed |-> NoSeal, altered |-> "n/a",
               frame_data |-> frame_data, key |-> key,
               result |-> decrypt_frame(frame_data, key)]
  /\ UNCHANGED <<gvars, tvars, proc, pending_logs, handlers>>

NextAT ==
  \/ \E device_id \in ATDeviceIds, nonce \in ATNonces, payload \in ATPayloads, key \in ATKeys :
        EncryptFrame(device_id, nonce, payload, key)
  \/ \E part \in FrameParts : AlterFrame(part)
  \/ \E key \in ATKeys : DecryptFrame(key)
  \/ \E n \in ShortLens, key \in ATKeys : DecryptShort(n, key)

SpecAT == Init /\ [][NextAT]_vars

(***************************************************************************)
(* One KeyStore, constructed with MASTER_KEY, called by several tasks.      *)
(* get_device_key and clear_cache contain no await: each call runs from its *)
(* first line to its return before another task runs, so an interleaving of *)
(* calls is a sequence of whole calls.  The ids are bytes objects, as the   *)
(* signature declares (12 bytes, or the 8 bytes of a frame's id field), and *)
(* the integers that ClientConnection passes.                               *)
(***************************************************************************)
KS_DEVICE_ID_SIZE == 12
KSIds ==
  {PyBytes(to_bytes(d, KS_DEVICE_ID_SIZE)) : d \in DeviceIds}
    \cup {PyBytes(to_bytes(d, DEVICE_ID_SIZE)) : d \in DeviceIds}
    \cup {PyInt(to_bytes(d, DEVICE_ID_SIZE)) : d \in DeviceIds}

\* task t calls get_device_key(device_id)
GetDeviceKey(t, device_id) ==
  /\ \E r \in {get_device_key(key_cache, MASTER_KEY, device_id)} :
        /\ key_cache' = r.cache
        /\ call' = [op |-> "get_device_key", task |-> t, device_id |-> device_id,
                    raised |-> r.raised, key |-> r.key,
                    cached |-> device_id \in DOMAIN key_cache,
                    after_clear |-> call.op = "clear_cache"]
  /\ UNCHANGED <<conns, connections, wire, dev_next, frames_sent, sent, reads, listening,
                 tvars, proc, pending_logs, handlers>>

ClearCache_UnbindsConnections(t) ==
  /\ key_cache' = clear_cache(key_cache)
  /\ call' = [op |-> "clear_cache", task |-> t,
              responses |-> [c \in ConnIds |-> Len(conns[c].written)]]
  /\ conns' = [c \in ConnIds |-> [conns[c] EXCEPT !.device_key = PyNone]]
  /\ UNCHANGED <<connections, wire, dev_next, frames_sent, sent, reads, listening,
                 tvars, proc, pending_logs, handlers>>
\* task t calls clear_cache(); call.responses remembers how many responses
\* each connection had written by then
ClearCache(t) ==
  /\ key_cache' = clear_cache(key_cache)
  /\ call' = [op |-> "clear_cache", task |-> t,
              responses |-> [c \in ConnIds |-> Len(conns[c].written)]]
  /\ UNCHANGED <<conns, connections, wire, dev_next, frames_sent, sent, reads, listening,
                 tvars, proc, pending_logs, handlers>>

NextKS ==
  \/ \E t \in ConnIds, device_id \in KSIds : GetDeviceKey(t, device_id)
  \/ \E t \in ConnIds : ClearCache(t)

SpecKS == Init /\ [][NextKS]_vars

\* the gateway of SpecKeyed, with clear_cache() called on its KeyStore at any time
NextKeyedClear ==
  \/ \E c \in ConnIds : Connect(c)
  \/ \E c \in ConnIds, d \in DeviceIds, n \in 1 .. MaxClearFrames, p \in SendPayloads :
        frames_sent < MaxClearFrames /\ DeviceSend(c, d, n, p)
  \/ \E c \in ConnIds, d \in DeviceIds : frames_sent < MaxClearFrames /\ ForgedSend(c, d, 1)
  \/ \E c \in ConnIds, k \in ReadChoices : Read(c, k)
  \/ \E c \in ConnIds : PeerClose(c)
  \/ \E t \in {1} : ClearCache(t)

SpecKeyedClear == InitKeyed /\ [][NextKeyedClear]_vars

(***************************************************************************)
(* The gateway process: main() from its command line to its exit status.    *)
(* The --master-key argument is a string of characters, written as the      *)
(* values 0..15 of its hexadecimal digits and NOT_HEX for any other         *)
(* character (no whitespace).                                               *)
(***************************************************************************)
NOT_HEX == 16
EXIT_OK == 0
EXIT_ERROR == 1
EXIT_SIGINT == 130

\* bytes.fromhex(s): [raised, v]; ValueError on a character that is no
\* hexadecimal digit and on an odd number of digits
fromhex(s) ==
  IF Len(s) % 2 = 1 \/ \E i \in 1 .. Len(s) : s[i] \notin 0 .. 15
  THEN [raised |-> TRUE, v |-> <<>>]
  ELSE [raised |-> FALSE, v |-> [i \in 1 .. Len(s) \div 2 |-> s[2 * i - 1] * 16 + s[2 * i]]]

KeyStore_init_AnyLength(master_key) ==
  [raised |-> FALSE, obj |-> [ty |-> "KeyStore", master_key |-> master_key,
                              key_cache |-> EmptyCache]]
\* KeyStore.__init__: [raised, obj]; ValueError unless the key has KEY_SIZE bytes
KeyStore_init(master_key) ==
  IF Len(master_key) # KEY_SIZE
  THEN [raised |-> TRUE, obj |-> PyNone]
  ELSE [raised |-> FALSE, obj |-> [ty |-> "KeyStore", master_key |-> master_key,
                                   key_cache |-> EmptyCache]]

\* FirebaseClient.__init__(base_url, api_key, timeout=30.0) called with the
\* positional arguments args: [raised, obj]; TypeError when api_key is missing
FirebaseClient_init(args) ==
  IF Len(args) < 2
  THEN [raised |-> TRUE, obj |-> PyNone]
  ELSE [raised |-> FALSE, obj |-> [ty |-> "FirebaseClient", base_url |-> args[1],
                                   api_key |-> args[2]]]

\* GatewayServer.__init__
GatewayServer_init(key_store, firebase_client) ==
  [ty |-> "GatewayServer", key_store |-> key_store, firebase_client |-> firebase_client]

\* the digits 000102...0F of DEFAULT_TEST_MASTER_KEY, continued to MaxHexChars
LongHex == [i \in 1 .. MaxHexChars |-> IF i % 2 = 1 THEN 0 ELSE ((i \div 2) - 1) % 16]
\* --master-key arguments: too short, right, too long, of odd length, and of
\* the right length with one character that is no hexadecimal digit
MasterKeyArgs ==
  {Take(LongHex, n) : n \in 0 .. MaxHexChars}
    \cup {[Take(LongHex, 2 * KEY_SIZE) EXCEPT ![i] = NOT_HEX] : i \in 1 .. 2 * KEY_SIZE}
FIREBASE_URL == "https://us-central1-machine-auth.cloudfunctions.net"
\* master keys given to KeyStore() directly
KSMasterKeys == {<<>>, Take(MASTER_KEY, KEY_SIZE - 1), MASTER_KEY, Append(MASTER_KEY, KEY_SIZE)}

NewProcess(arg) ==
  [pc |-> "start", arg |-> arg, master_key |-> <<>>, key_store |-> PyNone,
   firebase_client |-> PyNone, server |-> PyNone, exit_code |-> -1, interrupted |-> FALSE]

Exited(p, code) == [p EXCEPT !.pc = "exited", !.exit_code = code]

\* the process is started with one of the arguments; nothing listens yet
InitMain ==
  /\ tracker = NewNonceTracker(DEFAULT_WINDOW_SIZE)
  /\ t_accepts = [n \in NonceValues |-> 0]
  /\ t_last = [op |-> "new", n |-> 0, ok |-> FALSE, pre |-> NewNonceTracker(0), fresh |-> TRUE]
  /\ conns = [c \in ConnIds |-> NoConnection]
  /\ connections = {}
  /\ key_cache = EmptyCache
  /\ wire = [c \in ConnIds |-> <<>>]
  /\ dev_next = [d \in DeviceIds |-> 1]
  /\ frames_sent = 0
  /\ sent = [c \in ConnIds |-> <<>>]
  /\ reads = [c \in ConnIds |-> <<>>]
  /\ listening = FALSE
  /\ call = NoCall
  /\ pending_logs = <<>> /\ handlers = NoHandlers
  /\ \E arg \in MasterKeyArgs : proc = NewProcess(arg)

\* main.py: bytes.fromhex(args.master_key) and the length check; return 1 on
\* a ValueError and on a length other than 16
ParseMasterKey ==
  /\ proc.pc = "start"
  /\ proc' = LET r == fromhex(proc.arg) IN
              IF r.raised THEN Exited(proc, EXIT_ERROR)
              ELSE IF Len(r.v) # 16 THEN Exited(proc, EXIT_ERROR)
              ELSE [proc EXCEPT !.pc = "configured", !.master_key = r.v]
  /\ UNCHANGED <<gvars, tvars, call, pending_logs, handlers>>

\* key_store = KeyStore(master_key); an exception leaves main() uncaught and
\* the interpreter exits with status 1
CreateKeyStore ==
  /\ proc.pc = "configured"
  /\ proc' = LET r == KeyStore_init(proc.master_key) IN
              IF r.raised THEN Exited(proc, EXIT_ERROR)
              ELSE [proc EXCEPT !.pc = "key_store", !.key_store = r.obj]
  /\ UNCHANGED <<gvars, tvars, call, pending_logs, handlers>>

\* firebase_client = FirebaseClient(args.firebase_url); server = GatewayServer(...);
\* asyncio.run(server.run()) up to serve_forever()
CreateClientAndServe ==
  /\ proc.pc = "key_store"
  /\ LET r == FirebaseClient_init(<<FIREBASE_URL>>) IN
     IF r.raised
     THEN /\ proc' = Exited(proc, EXIT_ERROR)
          /\ listening' = listening
     ELSE /\ proc' = [proc EXCEPT !.pc = "serving", !.firebase_client = r.obj,
                                  !.server = GatewayServer_init(proc.key_store, r.obj)]
          /\ listening' = TRUE
  /\ UNCHANGED <<conns, connections, key_cache, wire, dev_next, frames_sent, sent, reads,
                 tvars, call, pending_logs, handlers>>

\* SIGINT: inside asyncio.run(server.run()) the KeyboardInterrupt is caught
\* and main() returns 0; anywhere else it leaves main() uncaught
Interrupt ==
  /\ proc.pc \notin {"none", "exited"}
  /\ proc' = [Exited(proc, IF proc.pc = "serving" THEN EXIT_OK ELSE EXIT_SIGINT)
               EXCEPT !.interrupted = TRUE]
  /\ listening' = FALSE
  /\ UNCHANGED <<conns, connections, key_cache, wire, dev_next, frames_sent, sent, reads,
                 tvars, call, pending_logs, handlers>>

\* KeyStore(master_key) constructed directly, with a key of any length
NewKeyStore(master_key) ==
  /\ call' = LET r == KeyStore_init(master_key) IN
              [op |-> "KeyStore", master_key |-> master_key, raised |-> r.raised, obj |-> r.obj]
  /\ UNCHANGED <<gvars, tvars, proc, pending_logs, handlers>>

NextMain ==
  \/ ParseMasterKey
  \/ CreateKeyStore
  \/ CreateClientAndServe
  \/ Interrupt
  \/ \E master_key \in KSMasterKeys : NewKeyStore(master_key)

SpecMain == InitMain /\ [][NextMain]_vars

(***************************************************************************)
(* ForwardResult, FirebaseClient.forward and GatewayServiceImpl.forward.    *)
(* A str is the sequence of its characters' code points, a bytes object the *)
(* sequence of its bytes.  The backend call ends in one outcome: a response *)
(* with a status code and a body, or an exception of one of the classes the *)
(* except clauses tell apart.                                               *)
(***************************************************************************)
MAX_ERROR_LENGTH == 120
\* max_size of the error field of the wire message ForwardResponse
ERROR_FIELD_MAX_SIZE == 128
REPLACEMENT_CHAR == 65533
S_Ellipsis == <<46, 46, 46>>
S_HTTP == <<72, 84, 84, 80, 32>>
S_ColonSpace == <<58, 32>>
S_ConnectionError == <<67, 111, 110, 110, 101, 99, 116, 105, 111, 110, 32, 101, 114, 114, 111, 114, 58, 32>>
S_ClientError == <<67, 108, 105, 101, 110, 116, 32, 101, 114, 114, 111, 114, 58, 32>>
S_TimedOut == <<82, 101, 113, 117, 101, 115, 116, 32, 116, 105, 109, 101, 100, 32, 111, 117, 116>>
S_UnexpectedError == <<85, 110, 101, 120, 112, 101, 99, 116, 101, 100, 32, 101, 114, 114, 111, 114, 58, 32>>

\* str(n) for n >= 0
RECURSIVE str_int(_)
str_int(n) == IF n < 10 THEN <<48 + n>> ELSE Append(str_int(n \div 10), 48 + (n % 10))

\* bytes.decode("utf-8", errors="replace") for one- and two-byte sequences:
\* byte i continues a two-byte sequence when a lead byte precedes it; every
\* other byte starts a character, and one that starts no valid sequence
\* becomes U+FFFD
decode_utf8_replace(b) ==
  LET IsSecond(i) == i > 1 /\ b[i - 1] \in 194 .. 223 /\ b[i] \in 128 .. 191
      starts == SelectSeq([i \in 1 .. Len(b) |-> i], LAMBDA i : ~IsSecond(i))
      CharAt(i) ==
        IF b[i] < 128 THEN b[i]
        ELSE IF b[i] \in 194 .. 223 /\ i < Len(b) /\ b[i + 1] \in 128 .. 191
             THEN (b[i] - 192) * 64 + (b[i + 1] - 128)
        ELSE REPLACEMENT_CHAR
  IN [k \in 1 .. Len(starts) |-> CharAt(starts[k])]

ForwardResult_EllipsisAfterLimit(success, payload, http_status, error) ==
  [success |-> success, payload |-> payload, http_status |-> http_status,
   error |-> IF Len(error) > MAX_ERROR_LENGTH
             THEN Take(error, MAX_ERROR_LENGTH) \o S_Ellipsis
             ELSE error]
\* ForwardResult(...) with its __post_init__
ForwardResult(success, payload, http_status, error) ==
  [success |-> success, payload |-> payload, http_status |-> http_status,
   error |-> IF Len(error) > MAX_ERROR_LENGTH
             THEN Take(error, MAX_ERROR_LENGTH - 3) \o S_Ellipsis
             ELSE error]

\* the error message FirebaseClient.forward builds for an outcome, before
\* ForwardResult shortens it
ForwardErrorMessage(outcome) ==
  CASE outcome.kind = "response" /\ outcome.status_code = 200 /\ outcome.json \in {"envelope", "no data"}
         -> <<>>
    [] outcome.kind = "response" /\ outcome.status_code = 200
         -> S_UnexpectedError \o outcome.msg
    [] outcome.kind = "response" /\ outcome.status_code # 200
         -> S_HTTP \o str_int(outcome.status_code) \o S_ColonSpace
              \o decode_utf8_replace(outcome.content)
    [] outcome.kind = "ConnectError" -> S_ConnectionError \o outcome.msg
    [] outcome.kind = "HTTPError" -> S_ClientError \o outcome.msg
    [] outcome.kind = "TimeoutError" -> S_TimedOut
    [] outcome.kind = "Exception" -> S_UnexpectedError \o outcome.msg

FirebaseClient_forward_StatusLost(outcome) ==
  IF outcome.kind = "response" /\ outcome.status_code = 200
       /\ outcome.json \in {"envelope", "no data"}
  THEN ForwardResult(TRUE, IF outcome.json = "envelope" THEN outcome.data ELSE <<>>,
                     outcome.status_code, <<>>)
  ELSE ForwardResult(FALSE, <<>>, 0, ForwardErrorMessage(outcome))
\* FirebaseClient.forward, given how the backend call ends: a 200 whose body is
\* the JSON envelope (with or without "data") succeeds; a 200 whose body does
\* not parse raises inside the try and is caught by except Exception; another
\* status keeps its code; an exception gives status 0
FirebaseClient_forward(outcome) ==
  IF outcome.kind = "response" /\ outcome.status_code = 200
       /\ outcome.json \in {"envelope", "no data"}
  THEN ForwardResult(TRUE, IF outcome.json = "envelope" THEN outcome.data ELSE <<>>,
                     outcome.status_code, <<>>)
  ELSE IF outcome.kind = "response" /\ outcome.status_code # 200
  THEN ForwardResult(FALSE, <<>>, outcome.status_code, ForwardErrorMessage(outcome))
  ELSE ForwardResult(FALSE, <<>>, 0, ForwardErrorMessage(outcome))

\* GatewayServiceImpl.forward: the dict it returns
GatewayService_forward(endpoint, payload, request_id, device_id, outcome) ==
  LET result == FirebaseClient_forward(outcome) IN
  [success |-> result.success, payload |-> result.payload,
   http_status |-> result.http_status, error |-> result.error, request_id |-> request_id]

\* n times the character or byte ch
Repeat(ch, n) == [i \in 1 .. n |-> ch]

Response(status_code, json, data, content) ==
  [kind |-> "response", status_code |-> status_code, json |-> json, data |-> data,
   content |-> content, msg |-> <<69, 120, 112, 101, 99, 116, 105, 110, 103, 32, 118, 97, 108, 117, 101>>]
Raised(kind, msg) ==
  [kind |-> kind, status_code |-> 0, json |-> "", data |-> <<>>, content |-> <<>>, msg |-> msg]

\* bodies of error responses: 0 to MaxBodyLen ASCII bytes, a body with a
\* two-byte character, a body with a byte that is no UTF-8, a body of 40 such
\* bytes
ErrorBodies ==
  {Repeat(120, n) : n \in 0 .. MaxBodyLen}
    \cup {<<195, 169>> \o Repeat(120, MaxBodyLen), <<255, 120>>, Repeat(255, 40)}
ExceptionMessages == {<<>>, Repeat(120, 4), Repeat(120, MaxBodyLen)}
Outcomes ==
  {Response(200, json, <<1, 2, 3>>, <<>>) : json \in {"envelope", "no data", "not json", "no object"}}
    \cup {Response(status_code, "", <<>>, content) :
            status_code \in {201, 404, 500}, content \in ErrorBodies}
    \cup {Raised(kind, msg) : kind \in {"ConnectError", "HTTPError", "TimeoutError", "Exception"},
                              msg \in ExceptionMessages}
RequestIds == {0, 41}
ForwardDeviceIds == {PyNone, PyBytes(to_bytes(1, KS_DEVICE_ID_SIZE))}
ErrorStrings == {Repeat(ch, n) : ch \in {120, 233, 8364}, n \in 0 .. MaxErrorChars}

\* GatewayServiceImpl.forward is called and the backend call ends in outcome
Forward(request_id, device_id, outcome) ==
  /\ call.op = "none"
  /\ call' = [op |-> "forward", request_id |-> request_id, device_id |-> device_id,
              outcome |-> outcome, message |-> ForwardErrorMessage(outcome),
              result |-> GatewayService_forward(<<>>, <<>>, request_id, device_id, outcome)]
  /\ UNCHANGED <<gvars, tvars, proc, pending_logs, handlers>>

\* a ForwardResult is constructed with the error string message
NewForwardResult(message) ==
  /\ call.op = "none"
  /\ call' = [op |-> "ForwardResult", request_id |-> 0, device_id |-> PyNone,
              outcome |-> Raised("", <<>>), message |-> message,
              result |-> ForwardResult(FALSE, <<>>, 0, message)]
  /\ UNCHANGED <<gvars, tvars, proc, pending_logs, handlers>>

NextFwd ==
  \/ \E request_id \in RequestIds, device_id \in ForwardDeviceIds, outcome \in Outcomes :
        Forward(request_id, device_id, outcome)
  \/ \E message \in ErrorStrings : NewForwardResult(message)

SpecFwd == Init /\ [][NextFwd]_vars

(***************************************************************************)
(* ClientConnection._send_response called on connection objects in every    *)
(* state of binding: unbound, device id assigned without a key, bound, and  *)
(* bound with a key of the wrong size.                                      *)
(***************************************************************************)
SendKeys(d) == {PyNone, PyBytes(DeviceKeyOf(d)), PyBytes(Take(DeviceKeyOf(d), KEY_SIZE - 1))}
SendConns ==
  {NewClientConnection}
    \cup {[NewClientConnection EXCEPT !.device_id = PyInt(to_bytes(d, DEVICE_ID_SIZE)),
                                      !.device_key = k] : d \in DeviceIds, k \in UNION {SendKeys(e) : e \in DeviceIds}}
SendResponses ==
  {encode_response(DEVICE_CHANNEL_ID, OTHER_SERVICE, METHOD_PING, STATUS_UNIMPLEMENTED),
   encode_response(DEVICE_CHANNEL_ID, GATEWAY_SERVICE, METHOD_PING, STATUS_UNIMPLEMENTED),
   encode_response(DEVICE_CHANNEL_ID, GATEWAY_SERVICE, METHOD_PING, STATUS_OK)}

InitSend ==
  /\ TrackerIdle
  /\ \E cn \in SendConns : conns = [c \in ConnIds |-> IF c = 1 THEN cn ELSE NoConnection]
  /\ connections = {1}
  /\ key_cache = EmptyCache
  /\ wire = [c \in ConnIds |-> <<>>]
  /\ dev_next = [d \in DeviceIds |-> 1]
  /\ frames_sent = 0
  /\ sent = [c \in ConnIds |-> <<>>]
  /\ reads = [c \in ConnIds |-> <<>>]
  /\ listening = TRUE

\* _send_response(response_data) on connection c
SendResponse(c, response_data) ==
  /\ conns[c].st = "open"
  /\ Len(conns[c].sealed) < MaxSendResponses
  /\ conns' = [conns EXCEPT ![c] = send_response(@, response_data)]
  /\ call' = [op |-> "send_response", c |-> c, response_data |-> response_data,
              before |-> conns[c]]
  /\ UNCHANGED <<connections, key_cache, wire, dev_next, frames_sent, sent, reads, listening,
                 tvars, proc, pending_logs, handlers>>

NextSend == \E c \in ConnIds, response_data \in SendResponses : SendResponse(c, response_data)

SpecSend == InitSend /\ [][NextSend]_vars

(***************************************************************************)
(* GatewayServer's registry, with the handler coroutines told apart from    *)
(* the peer addresses they register under.  The kernel keeps the addresses  *)
(* of its established connections distinct; a connection its peer has reset *)
(* is gone from the kernel while its handler is still suspended at an       *)
(* await, and the peer may connect again from the same address.  The        *)
(* registry is a dict: connections is the set of its keys.                  *)
(***************************************************************************)
RegHandlers == 1 .. MaxHandlers
Addrs == 1 .. MaxAddrs

\* self._connections[addr] = conn
registry_set(keys, addr) == keys \cup {addr}

\* del self._connections[addr]: [keys, raised]; KeyError when addr is no key
registry_del(keys, addr) ==
  IF addr \in keys THEN [keys |-> keys \ {addr}, raised |-> FALSE]
  ELSE [keys |-> keys, raised |-> TRUE]

\* the listener accepts a connection from addr and starts task h on
\* _handle_connection, which registers conn and awaits conn.handle()
HandlerStarts(h, addr) ==
  /\ listening
  /\ handlers[h].st = "none"
  /\ \A g \in RegHandlers : g < h => handlers[g].st # "none"
  /\ \A g \in RegHandlers :
       (handlers[g].st = "running" /\ handlers[g].established) => handlers[g].addr # addr
  /\ handlers' = [handlers EXCEPT ![h] = [st |-> "running", addr |-> addr,
                                            established |-> TRUE, raised |-> FALSE]]
  /\ connections' = registry_set(connections, addr)
  /\ UNCHANGED <<conns, key_cache, wire, dev_next, frames_sent, sent, reads, listening,
                 tvars, call, proc, pending_logs>>

\* the peer resets the connection of h; the coroutine is still suspended
PeerReset(h) ==
  /\ handlers[h].st = "running"
  /\ handlers[h].established
  /\ handlers' = [handlers EXCEPT ![h].established = FALSE]
  /\ UNCHANGED <<gvars, tvars, call, proc, pending_logs>>

\* conn.handle() of h returns (end of stream, error or cancellation, all
\* caught in handle) and the finally clause of _handle_connection runs
HandlerFinishes(h) ==
  /\ handlers[h].st = "running"
  /\ LET r == registry_del(connections, handlers[h].addr) IN
       /\ connections' = r.keys
       /\ handlers' = [handlers EXCEPT ![h].st = "finished", ![h].established = FALSE,
                                       ![h].raised = r.raised]
  /\ UNCHANGED <<conns, key_cache, wire, dev_next, frames_sent, sent, reads, listening,
                 tvars, call, proc, pending_logs>>

NextReg ==
  \/ \E h \in RegHandlers, addr \in Addrs : HandlerStarts(h, addr)
  \/ \E h \in RegHandlers : PeerReset(h)
  \/ \E h \in RegHandlers : HandlerFinishes(h)

SpecReg == Init /\ [][NextReg]_vars

(***************************************************************************)
(* GatewayServiceImpl's pending logs: persist_log, pending_log_count and    *)
(* clear_pending_logs called by the tasks of the connections.  None of them *)
(* awaits, so each call is one step.                                        *)
(***************************************************************************)
persist_log_CountBeforeAppend(logs, timestamp_ms, level, module, message, data) ==
  [pending_logs |-> Append(logs, [timestamp_ms |-> timestamp_ms, level |-> level,
                                  module |-> module, message |-> message, data |-> data]),
   ret |-> [success |-> TRUE, pending_count |-> Len(logs)]]

\* persist_log: the new list and the dict returned
persist_log(logs, timestamp_ms, level, module, message, data) ==
  LET log_entry == [timestamp_ms |-> timestamp_ms, level |-> level, module |-> module,
                    message |-> message, data |-> data]
      appended == Append(logs, log_entry)
  IN [pending_logs |-> appended,
      ret |-> [success |-> TRUE, pending_count |-> Len(appended)]]

pending_log_count(logs) == Len(logs)

clear_pending_logs(logs) == <<>>

LogTasks == 1 .. MaxConns
LogLevels == {0, 4, 7}
LogMessages == {<<>>, <<120>>}

\* persist_log calls since the last clear_pending_logs, as counted by the
\* callers: carried from one call record to the next
LoggedSinceClear == IF call.op \in {"persist_log", "pending_log_count"}
                    THEN call.since_clear ELSE 0

PersistLog(t, level, message) ==
  /\ call.op \in {"none", "persist_log", "pending_log_count", "clear_pending_logs"}
  /\ LoggedSinceClear < MaxPendingLogs
  /\ LET r == persist_log(pending_logs, 0, level, <<>>, message, <<>>) IN
       /\ pending_logs' = r.pending_logs
       /\ call' = [op |-> "persist_log", task |-> t, ret |-> r.ret,
                   since_clear |-> LoggedSinceClear + 1]
  /\ UNCHANGED <<gvars, tvars, proc, handlers>>

PendingLogCount(t) ==
  /\ call.op \in {"none", "persist_log", "pending_log_count", "clear_pending_logs"}
  /\ call' = [op |-> "pending_log_count", task |-> t,
              ret |-> pending_log_count(pending_logs), since_clear |-> LoggedSinceClear]
  /\ UNCHANGED <<gvars, tvars, proc, pending_logs, handlers>>

ClearPendingLogs(t) ==
  /\ call.op \in {"none", "persist_log", "pending_log_count", "clear_pending_logs"}
  /\ pending_logs' = clear_pending_logs(pending_logs)
  /\ call' = [op |-> "clear_pending_logs", task |-> t, ret |-> PyNone, since_clear |-> 0]
  /\ UNCHANGED <<gvars, tvars, proc, handlers>>

NextLog ==
  \/ \E t \in LogTasks, level \in LogLevels, message \in LogMessages :
        PersistLog(t, level, message)
  \/ \E t \in LogTasks : PendingLogCount(t)
  \/ \E t \in LogTasks : ClearPendingLogs(t)

SpecLog == Init /\ [][NextLog]_vars

(***************************************************************************)
(* Claims about the NonceTracker (checked under SpecNT).                    *)
(***************************************************************************)

\* C1: without an intervening reset(), every nonce value is accepted at most
\* once, whether it is still in seen_nonces or was pruned out of the window.
C1_AcceptedAtMostOnce == \A n \in NonceValues : t_accepts[n] <= 1

\* a value accepted earlier and since pruned from seen_nonces is submitted again and rejected
C1_Witness ==
  /\ t_last.op = "check" /\ ~t_last.ok
  /\ t_accepts[t_last.n] = 1
  /\ t_last.n \notin tracker.seen_nonces

\* C4: check_and_update(n) accepts exactly when n >= highest - windowSize and
\* n is not in seen (on the state before the call); with windowSize 64 and
\* highest 100, 35 is rejected and an unseen 36 is accepted.
C4_AcceptIffInWindowAndUnseen ==
  t_last.op = "check" =>
    /\ t_last.ok <=> (/\ t_last.n >= t_last.pre.highest_nonce - t_last.pre.window_size
                      /\ t_last.n \notin t_last.pre.seen_nonces)
    /\ (t_last.pre.window_size = 64 /\ t_last.pre.highest_nonce = 100 /\ t_last.n = 35)
         => ~t_last.ok
    /\ (t_last.pre.window_size = 64 /\ t_last.pre.highest_nonce = 100 /\ t_last.n = 36
          /\ 36 \notin t_last.pre.seen_nonces) => t_last.ok

\* 36 = 100 - 64 arrives after 100 (reordered, at the edge of the window) and is accepted
C4_Witness ==
  /\ t_last.op = "check" /\ t_last.ok /\ t_last.n = 36
  /\ t_last.pre.window_size = 64 /\ t_last.pre.highest_nonce = 100

\* C5 as stated: in every reachable state, the initial one and the one after
\* reset() included, a nonce equal to the current highest is rejected.
C5_EqualToHighestRejected ==
  (t_last.op = "check" /\ t_last.n = t_last.pre.highest_nonce) => ~t_last.ok

\* C5 amended: once a nonce has been accepted since construction or the last
\* reset(), a nonce equal to the current highest is rejected; on a fresh or
\* just reset tracker nonce 0 (= highest) is accepted.
C5_EqualToHighestRejectedOnceAccepted ==
  (t_last.op = "check" /\ t_last.n = t_last.pre.highest_nonce) =>
    (t_last.ok <=> t_last.fresh)

\* the current highest is submitted again on a tracker that has accepted it, and is rejected
C5_Witness ==
  /\ t_last.op = "check" /\ ~t_last.fresh /\ ~t_last.ok
  /\ t_last.n = t_last.pre.highest_nonce
  /\ t_last.pre.highest_nonce > 0

(***************************************************************************)
(* Claims about the gateway.  Spec is the gateway as built (its KeyStore    *)
(* starts empty); SpecKeyed is the same gateway with a KeyStore that        *)
(* already returns each device's key for the integer id of its frames.      *)
(***************************************************************************)
IdOf(d) == PyInt(to_bytes(d, DEVICE_ID_SIZE))
Bound(cn) == cn.device_id # PyNone /\ cn.device_key # PyNone
Genuine(d, n) == [d |-> d, n |-> n, forged |-> FALSE]
Forged(d, n) == [d |-> d, n |-> n, forged |-> TRUE]
FrameLen == Len(DeviceFrame(1, 1, RequestPayload))

\* the response frame number n of a connection bound to device d
ResponseFrame(d, n) ==
  encrypt_frame(IdOf(d), to_bytes(n, NONCE_SIZE),
                hdlc_encode_frame(encode_response(DEVICE_CHANNEL_ID, OTHER_SERVICE, METHOD_PING,
                                                  STATUS_UNIMPLEMENTED)),
                DeviceKeyOf(d)).frame.v

\* every frame written on c so far was returned by a read() of its own, whole,
\* and the peer has not closed
OneFramePerRead(c) ==
  /\ Len(reads[c]) = Len(sent[c])
  /\ \A i \in 1 .. Len(reads[c]) : reads[c][i] = FrameLen
  /\ conns[c].exit # "eof"

C6_FirstFrameBindsAndIsAnswered ==
  \A c \in ConnIds, d \in DeviceIds :
    (sent[c] = <<Genuine(d, 1)>> /\ OneFramePerRead(c)) =>
      /\ conns[c].st = "open"
      /\ conns[c].device_id = IdOf(d)
      /\ conns[c].device_key = PyBytes(DeviceKeyOf(d))
      /\ conns[c].written = <<ResponseFrame(d, 1)>>

C10_UnauthenticatedFrameNeverBinds ==
  \A c \in ConnIds :
    (sent[c] # <<>> /\ \A i \in 1 .. Len(sent[c]) : sent[c][i].forged) =>
      (conns[c].device_id = PyNone /\ conns[c].device_key = PyNone)

Events(c, ev) == {i \in 1 .. Len(conns[c].log) : conns[c].log[i].ev = ev}

NonceOf(frame) == SubSeq(frame, DEVICE_ID_SIZE + 1, DEVICE_ID_SIZE + NONCE_SIZE)

IsSubsequence(a, b) ==
  \E f \in [1 .. Len(a) -> 1 .. Len(b)] :
    /\ \A i \in 1 .. Len(a) : a[i] = b[f[i]]
    /\ \A i \in 1 .. Len(a), j \in 1 .. Len(a) : i < j => f[i] < f[j]

Raises(c) ==
  conns[c].st = "open" /\ conns'[c].st = "closed" /\ conns'[c].exit = "raise"

MaxOf(S) == IF S = {} THEN 0 ELSE CHOOSE m \in S : \A n \in S : n <= m

DecryptedSealed == call.op = "decrypt_frame" /\ call.sealed # NoSeal

\* C22: for every device id, 16-byte nonce, payload and 16-byte key,
\* encrypt_frame succeeds, and decrypt_frame of its frame under the same key
\* succeeds and returns exactly (device id, nonce, payload).
C22_EncryptDecryptRoundTrip ==
  /\ (/\ call.op = "encrypt_frame"
      /\ Len(call.sealed.nonce) = 16 /\ Len(call.sealed.key) = 16)
       => (call.result.error = "" /\ call.result.frame # PyNone)
  /\ (DecryptedSealed /\ call.altered = "no" /\ call.key = call.sealed.key)
       => call.result =
            [frame |-> [ty |-> "frame", device_id |-> call.sealed.device_id,
                        nonce |-> call.sealed.nonce, payload |-> call.sealed.payload],
             error |-> ""]

\* the frame of device 2 with nonce 2 and the empty payload came back whole
C22_Witness ==
  /\ DecryptedSealed /\ call.altered = "no" /\ call.key = call.sealed.key
  /\ call.sealed.device_id = PyInt(to_bytes(2, DEVICE_ID_SIZE))
  /\ call.sealed.nonce = to_bytes(2, NONCE_SIZE)
  /\ call.sealed.payload = <<>>
  /\ call.result.error = ""
  /\ call.result.frame.payload = <<>>
  /\ Len(call.frame_data) = MIN_FRAME_SIZE

\* C23: decrypt_frame yields no payload for a frame that does not
\* authenticate: decrypted under another key than the one it was sealed
\* under, or with its device id, nonce, ciphertext or tag altered, it returns
\* (None, error); and in every case exactly one of frame and error is not None.
C23_NoPayloadWithoutAuthentication ==
  call.op = "decrypt_frame" =>
    /\ (DecryptedSealed /\ (call.key # call.sealed.key \/ call.altered # "no"))
         => (call.result.frame = PyNone /\ call.result.error # "")
    /\ call.result.frame # PyNone <=> call.result.error = ""

\* a frame sealed under device 1's key, with only its device id changed into
\* device 2's, was decrypted under device 1's key and refused
C23_Witness ==
  /\ DecryptedSealed
  /\ call.altered = "device_id"
  /\ call.sealed.key = DeviceKeyOf(1) /\ call.key = DeviceKeyOf(1)
  /\ call.sealed.payload = RequestPayload
  /\ call.result.frame = PyNone
  /\ call.result.error = "ASCON decryption failed: authentication error"

\* C24 as stated: decrypt_frame on fewer than 40 bytes returns frame too short
\* whatever the key; decrypt_frame and encrypt_frame with a key that is not 16
\* bytes long return invalid key size; encrypt_frame with a nonce that is not
\* 16 bytes long returns invalid nonce size; none returns a frame.
C24_SizeErrors ==
  /\ (call.op = "decrypt_frame" /\ Len(call.frame_data) < 40)
       => call.result = [frame |-> PyNone, error |-> "Frame too short"]
  /\ (call.op = "decrypt_frame" /\ Len(call.frame_data) >= 40 /\ Len(call.key) # 16)
       => call.result = [frame |-> PyNone, error |-> "Invalid key size"]
  /\ (call.op = "encrypt_frame" /\ Len(call.sealed.key) # 16)
       => call.result = [frame |-> PyNone, error |-> "Invalid key size"]
  /\ (call.op = "encrypt_frame" /\ Len(call.sealed.nonce) # 16)
       => call.result = [frame |-> PyNone, error |-> "Invalid nonce size"]

\* C24 amended: as above, but encrypt_frame checks the nonce first: a key
\* that is not 16 bytes long gives invalid key size when the nonce is 16 bytes
\* long, and a nonce that is not 16 bytes long gives invalid nonce size
\* whatever the key.
C24_SizeErrorsNonceFirst ==
  /\ (call.op = "decrypt_frame" /\ Len(call.frame_data) < 40)
       => call.result = [frame |-> PyNone, error |-> "Frame too short"]
  /\ (call.op = "decrypt_frame" /\ Len(call.frame_data) >= 40 /\ Len(call.key) # 16)
       => call.result = [frame |-> PyNone, error |-> "Invalid key size"]
  /\ (call.op = "encrypt_frame" /\ Len(call.sealed.nonce) = 16 /\ Len(call.sealed.key) # 16)
       => call.result = [frame |-> PyNone, error |-> "Invalid key size"]
  /\ (call.op = "encrypt_frame" /\ Len(call.sealed.nonce) # 16)
       => call.result = [frame |-> PyNone, error |-> "Invalid nonce size"]

\* 39 bytes were given to decrypt_frame with a key of 15 bytes: frame too short
C24_Witness ==
  /\ call.op = "decrypt_frame"
  /\ Len(call.frame_data) = 39 /\ Len(call.key) = 15
  /\ call.result = [frame |-> PyNone, error |-> "Frame too short"]

(***************************************************************************)
(* Claims about the KeyStore.                                               *)
(***************************************************************************)
\* KDF(masterKey || id) truncated to 16 bytes
KDF16(master_key, id_bytes) == Take(ascon_hash(master_key \o id_bytes), KEY_SIZE)

\* C25: in every interleaving of get_device_key and clear_cache calls made by
\* the tasks on one KeyStore, every get_device_key(id) returns
\* KDF(masterKey || id) truncated to 16 bytes, never fails (after clear_cache
\* it computes the key again), and every cache entry holds that value.
C25_KeyStoreDeterministicUnderInterleaving ==
  /\ call.op = "get_device_key" =>
       /\ ~call.raised
       /\ call.key = KDF16(MASTER_KEY, call.device_id.v)
       /\ Len(call.key) = 16
  /\ \A id \in DOMAIN key_cache : key_cache[id] = KDF16(MASTER_KEY, id.v)

ValidMasterKeyArg(arg) == Len(arg) = 32 /\ \A i \in 1 .. Len(arg) : arg[i] \in 0 .. 15

\* C27: a master key that is not exactly 16 bytes long is never put to use:
\* KeyStore() raises for it and returns no object, and main() given a
\* --master-key of the wrong length or with a character that is no
\* hexadecimal digit exits with a non-zero status before a KeyStore, a backend
\* client or a server exists and before anything listens.
C27_BadMasterKeyNeverUsed ==
  /\ call.op = "KeyStore" =>
       /\ call.raised <=> Len(call.master_key) # 16
       /\ call.raised => call.obj = PyNone
       /\ ~call.raised => call.obj.master_key = call.master_key
  /\ proc.key_store # PyNone => Len(proc.key_store.master_key) = 16
  /\ ~ValidMasterKeyArg(proc.arg) =>
       /\ proc.key_store = PyNone /\ proc.firebase_client = PyNone /\ proc.server = PyNone
       /\ ~listening
       /\ proc.pc \in {"start", "exited"}
       /\ proc.pc = "exited" => proc.exit_code # 0

\* main() was given 32 characters of which one is no hexadecimal digit and
\* returned 1 with nothing constructed, and KeyStore() was given 17 bytes and raised
C27_Witness ==
  /\ Len(proc.arg) = 32 /\ ~ValidMasterKeyArg(proc.arg)
  /\ proc.pc = "exited" /\ proc.exit_code = 1 /\ ~proc.interrupted
  /\ proc.key_store = PyNone
  /\ call.op = "KeyStore" /\ Len(call.master_key) = 17 /\ call.raised

\* C28: started with a valid master key of 32 hexadecimal characters the
\* process does not exit before it is interrupted (it constructs its KeyStore,
\* backend client and server and listens), and interrupted while serving it
\* exits with status 0.
C28_ValidKeyServesUntilInterrupted ==
  ValidMasterKeyArg(proc.arg) =>
    /\ ~proc.interrupted => proc.pc # "exited"
    /\ (proc.pc = "exited" /\ proc.server # PyNone) => proc.exit_code = 0

(***************************************************************************)
(* Claims about the Forward handler (checked under SpecFwd).                *)
(***************************************************************************)
\* the call was GatewayServiceImpl.forward and the backend answered with a
\* status other than 200
ForwardedErrorStatus ==
  call.op = "forward" /\ call.outcome.kind = "response" /\ call.outcome.status_code # 200

\* the backend call ended in an exception: one raised by the HTTP client, or
\* one raised while the body of a 200 response was unwrapped
ForwardedException ==
  /\ call.op = "forward"
  /\ \/ call.outcome.kind # "response"
     \/ call.outcome.status_code = 200 /\ call.outcome.json \in {"not json", "no object"}

\* C29: whatever the outcome of the backend call, forward returns its five
\* response fields: success is true only for HTTP 200; another status gives
\* success = false, http_status = that status and the body text in error
\* ("HTTP <status>: <body>", shortened to 120 characters when longer); an
\* exception gives success = false and a non-empty error; request_id is the
\* caller's.
C29_ForwardAlwaysAnswers ==
  call.op = "forward" =>
    /\ DOMAIN call.result = {"success", "payload", "http_status", "error", "request_id"}
    /\ call.result.request_id = call.request_id
    /\ call.result.success =>
         (/\ call.outcome.kind = "response" /\ call.outcome.status_code = 200
          /\ call.result.http_status = 200)
    /\ ForwardedErrorStatus =>
         /\ ~call.result.success
         /\ call.result.http_status = call.outcome.status_code
         /\ LET text == S_HTTP \o str_int(call.outcome.status_code) \o S_ColonSpace
                          \o decode_utf8_replace(call.outcome.content)
            IN call.result.error =
                 IF Len(text) <= 120 THEN text ELSE Take(text, 117) \o <<46, 46, 46>>
    /\ ForwardedException => (~call.result.success /\ call.result.error # <<>>)

\* the backend answered 500 with a two-byte body that is no UTF-8: the caller
\* with request id 41 got success = false, http_status 500 and "HTTP 500: " with
\* the body decoded
C29_Witness ==
  /\ ForwardedErrorStatus
  /\ call.outcome.status_code = 500 /\ call.outcome.content = <<255, 120>>
  /\ call.request_id = 41 /\ call.result.request_id = 41
  /\ ~call.result.success /\ call.result.http_status = 500
  /\ call.result.error = <<72, 84, 84, 80, 32, 53, 48, 48, 58, 32, 65533, 120>>

\* C30: the error string of a forward result has at most 120 characters: a
\* message of 120 characters or fewer is kept as it is, a longer one becomes
\* its first 117 characters followed by "..."; the result is never longer than
\* the message and begins like it.
C30_ErrorAtMost120Characters ==
  call.op \in {"forward", "ForwardResult"} =>
    /\ Len(call.result.error) <= 120
    /\ Len(call.message) <= 120 => call.result.error = call.message
    /\ Len(call.message) > 120 =>
         /\ call.result.error = Take(call.message, 117) \o <<46, 46, 46>>
         /\ Len(call.result.error) = 120
    /\ Len(call.result.error) <= Len(call.message)
    /\ \A i \in 1 .. Len(call.result.error) :
         i <= 117 => call.result.error[i] = call.message[i]

\* a message of 121 three-byte characters came out as 117 of them and "..."
C30_Witness ==
  /\ call.op = "ForwardResult"
  /\ call.message = Repeat(8364, 121)
  /\ call.result.error = Repeat(8364, 117) \o <<46, 46, 46>>

\* the number of bytes of str.encode("utf-8"): one per character, one more
\* from U+0080, one more from U+0800, one more from U+10000
utf8_len(s) ==
  Len(s) + Cardinality({i \in 1 .. Len(s) : s[i] >= 128})
         + Cardinality({i \in 1 .. Len(s) : s[i] >= 2048})
         + Cardinality({i \in 1 .. Len(s) : s[i] >= 65536})

\* C31: the error string of every forward result, encoded as UTF-8, fits in
\* the 128 bytes of the wire field, whatever the backend's error text.
C31_ErrorFitsWireField ==
  call.op \in {"forward", "ForwardResult"} =>
    utf8_len(call.result.error) <= ERROR_FIELD_MAX_SIZE

(***************************************************************************)
(* Claims about the pending logs (checked under SpecLog).                   *)
(***************************************************************************)
\* C32: however persist_log, pending_log_count and clear_pending_logs calls of
\* the tasks interleave, each persist_log returns success = true and a count
\* equal to the number of persist_log calls since the last clear, itself
\* included; pending_log_count reports that number; after clear_pending_logs
\* the count is 0.
C32_PendingCountCountsCallsSinceClear ==
  /\ call.op = "persist_log" =>
       /\ call.ret.success = TRUE
       /\ call.ret.pending_count = call.since_clear
       /\ call.since_clear >= 1
  /\ call.op = "pending_log_count" => call.ret = call.since_clear
  /\ call.op = "clear_pending_logs" => pending_log_count(pending_logs) = 0
  /\ call.op \in {"persist_log", "pending_log_count", "clear_pending_logs"} =>
       pending_log_count(pending_logs) = LoggedSinceClear

\* task 2 logged the second entry after a clear and two entries of different
\* levels are pending
C32_Witness ==
  /\ call.op = "persist_log" /\ call.task = 2
  /\ call.ret = [success |-> TRUE, pending_count |-> 2]
  /\ Len(pending_logs) = 2 /\ pending_logs[1].level # pending_logs[2].level

(***************************************************************************)
(* Claims about packets that are no requests (checked under SpecPkt).       *)
(***************************************************************************)
\* the packet inside the HDLC flags of a payload a peer sent
PacketOf(p) == packets_decode(SubSeq(p, 2, Len(p) - 1))
NonRequestFrame(f) == PacketOf(f.p).ok /\ PacketOf(f.p).type # PKT_REQUEST
UndecodableFrame(f) == ~PacketOf(f.p).ok
RequestFrame(f) == PacketOf(f.p).ok /\ PacketOf(f.p).type = PKT_REQUEST
FramesOf(c, F(_)) == {i \in 1 .. Len(sent[c]) : F(sent[c][i])}

\* every frame written on c is of one device and was returned, whole and
\* alone, by a read() of its own
WholeFrameReads(c) ==
  /\ Len(reads[c]) = Len(sent[c])
  /\ \A i \in 1 .. Len(sent[c]) :
       /\ sent[c][i].d = sent[c][1].d
       /\ reads[c][i] = Len(DeviceFrame(sent[c][i].d, sent[c][i].n, sent[c][i].p))

GenuineNonces(c) ==
  {sent[c][i].n : i \in {j \in 1 .. Len(sent[c]) :
                          ~sent[c][j].forged /\ IdOf(sent[c][j].d) = conns[c].device_id}}

RunningAddrs == {handlers[h].addr : h \in {g \in RegHandlers : handlers[g].st = "running"}}

\* C36: at every state the registry holds exactly the peer addresses of the
\* handlers that have started and not finished; it is empty once every
\* handler has finished; and no removal fails.
C36_RegistryHoldsLiveConnections ==
  /\ connections = RunningAddrs
  /\ \A h \in RegHandlers : handlers[h].st = "finished" => ~handlers[h].raised

(***************************************************************************)
(* Further claims about the NonceTracker (checked under SpecNT).            *)
(***************************************************************************)
\* the nonce values accepted since construction or the last reset()
AcceptedSinceReset == {n \in NonceValues : t_accepts[n] >= 1}

\* C37: every value in seen lies between highest - windowSize and highest,
\* so seen holds at most windowSize + 1 values; highest is the largest nonce
\* accepted since construction or the last reset (0 if none), and no
\* check_and_update lowers it.
C37_SeenWithinWindowOfHighest ==
  /\ \A n \in tracker.seen_nonces :
       tracker.highest_nonce - tracker.window_size <= n /\ n <= tracker.highest_nonce
  /\ Cardinality(tracker.seen_nonces) <= tracker.window_size + 1
  /\ tracker.highest_nonce = MaxOf(AcceptedSinceReset \cup {0})
  /\ t_last.op = "check" => tracker.highest_nonce >= t_last.pre.highest_nonce

\* with window size 2, accepting 3 raised highest to 3 and pruned 0: seen is
\* full with the three values 1, 2, 3
C37_Witness ==
  /\ tracker.window_size = 2 /\ tracker.highest_nonce = 3
  /\ tracker.seen_nonces = {1, 2, 3}
  /\ t_accepts[0] = 1
  /\ t_last.op = "check" /\ t_last.ok /\ t_last.n = 3

\* C38: a check_and_update call that rejects its nonce, as too old or as
\* already seen, leaves highest and seen (and the window size) as they were.
C38_RejectionChangesNothing ==
  (t_last.op = "check" /\ ~t_last.ok) => tracker = t_last.pre

\* a nonce below the window was rejected as too old on a tracker that holds
\* other values
C38_Witness ==
  /\ t_last.op = "check" /\ ~t_last.ok
  /\ t_last.n < t_last.pre.highest_nonce - t_last.pre.window_size
  /\ t_last.n \notin t_last.pre.seen_nonces
  /\ tracker.seen_nonces # {} /\ tracker = t_last.pre

\* the results of two check_and_update calls in a row on tracker t, and the
\* tracker they leave
TwoChecks(t, n1, n2) ==
  LET r1 == check_and_update(t, to_bytes(n1, NONCE_SIZE))
      r2 == check_and_update(r1.t, to_bytes(n2, NONCE_SIZE))
  IN <<r1.ok, r2.ok, r2.t>>

\* C39: after reset() the tracker is a newly constructed tracker of the same
\* window size: highest is 0 and seen is empty, and the tracker answers the
\* check_and_update calls that follow as a new tracker does.
C39_ResetEqualsNewTracker ==
  /\ t_last.op = "reset" =>
       /\ tracker.highest_nonce = 0 /\ tracker.seen_nonces = {}
       /\ tracker = NewNonceTracker(t_last.pre.window_size)
       /\ \A n1, n2 \in NonceValues :
            TwoChecks(tracker, n1, n2)
              = TwoChecks(NewNonceTracker(t_last.pre.window_size), n1, n2)

\* reset() was called on a tracker that had accepted 100 and 36 with the
\* default window
C39_Witness ==
  /\ t_last.op = "reset"
  /\ t_last.pre.window_size = DEFAULT_WINDOW_SIZE
  /\ t_last.pre.highest_nonce = 100 /\ 36 \in t_last.pre.seen_nonces
  /\ tracker = NewNonceTracker(DEFAULT_WINDOW_SIZE)

(***************************************************************************)
(* Claims about the responses written (checked under SpecSend).             *)
(***************************************************************************)
\* the call was _send_response on a connection whose encrypt_frame fails
EncryptFailed ==
  /\ call.op = "send_response"
  /\ call.before.device_id # PyNone /\ call.before.device_key # PyNone
  /\ encrypt_frame(call.before.device_id,
                   to_bytes(call.before.response_nonce_counter + 1, NONCE_SIZE),
                   hdlc_encode_frame(call.response_data), call.before.device_key.v).error # ""

C40_WitnessEncryptFailed ==
  /\ EncryptFailed
  /\ Len(call.before.device_key.v) = KEY_SIZE - 1
  /\ conns[1].response_nonce_counter = 1 /\ conns[1].written = <<>>

====
